---- MODULE Spec2Model ----
(***************************************************************************)
(* A model of the nubarium-go date normaliser (src/dates.go) and of the    *)
(* client of the OCR service (src/example/main.go:202-480).                *)
(*                                                                         *)
(* A Go string is a sequence of one-character strings.  A time.Time is the *)
(* civil day it denotes, counted in days from 1 January of year 1, with    *)
(* its location; the hour is always 0 in this program.  Digit runs are     *)
(* short enough for strconv.Atoi never to report a range error.            *)
(***************************************************************************)
EXTENDS Integers, Sequences, FiniteSets, TLC

(***************************************************************************)
(* Bounds of the model.                                                    *)
(***************************************************************************)
\* longest run of one whitespace character put before or after a month name
MaxPad == 1
\* most options handed to NewDateParser in one call
MaxOpts == 1
\* most '/'-separated segments the caller puts into one date string
MaxSegs == 4
\* a month name has its first MaxMixed letters in every mix of cases
MaxMixed == 3
\* the goroutines that call Parse at the same time
NumGoroutines == 2

(***************************************************************************)
(* Characters and the string functions of the Go library that Parse uses.  *)
(***************************************************************************)
Digits == <<"0", "1", "2", "3", "4", "5", "6", "7", "8", "9">>

Lowers == <<"a", "b", "c", "d", "e", "f", "g", "h", "i", "j", "k", "l", "m",
            "n", "o", "p", "q", "r", "s", "t", "u", "v", "w", "x", "y", "z">>

Uppers == <<"A", "B", "C", "D", "E", "F", "G", "H", "I", "J", "K", "L", "M",
            "N", "O", "P", "Q", "R", "S", "T", "U", "V", "W", "X", "Y", "Z">>

DigitSet == {Digits[i] : i \in 1..10}

LowerSet == {Lowers[i] : i \in 1..26}

UpperSet == {Uppers[i] : i \in 1..26}

\* unicode.IsSpace, on the characters of the model
WhitespaceChars == {" ", "\t"}

IsDigit(r) == r \in DigitSet

DigitVal(r) == (CHOOSE i \in 1..10 : Digits[i] = r) - 1

\* unicode.ToLower / unicode.ToUpper on ASCII
ToLowerRune(r) ==
  IF r \in UpperSet THEN Lowers[CHOOSE i \in 1..26 : Uppers[i] = r] ELSE r

ToUpperRune(r) ==
  IF r \in LowerSet THEN Uppers[CHOOSE i \in 1..26 : Lowers[i] = r] ELSE r

\* strings.ToLower
ToLower(s) == [i \in 1..Len(s) |-> ToLowerRune(s[i])]

\* strings.TrimSpace: the leading and the trailing whitespace are cut
RECURSIVE TrimLeft(_)
TrimLeft(s) ==
  IF s # <<>> /\ Head(s) \in WhitespaceChars THEN TrimLeft(Tail(s)) ELSE s

RECURSIVE TrimRight(_)
TrimRight(s) ==
  IF s # <<>> /\ s[Len(s)] \in WhitespaceChars
  THEN TrimRight(SubSeq(s, 1, Len(s) - 1))
  ELSE s

TrimSpace(s) == TrimRight(TrimLeft(s))

\* strings.Split(s, "/"): n separators give n+1 segments, "" gives [""]
RECURSIVE SplitFrom(_, _, _)
SplitFrom(s, i, cur) ==
  IF i > Len(s) THEN <<cur>>
  ELSE IF s[i] = "/" THEN <<cur>> \o SplitFrom(s, i + 1, <<>>)
  ELSE SplitFrom(s, i + 1, Append(cur, s[i]))

Split(s) == SplitFrom(s, 1, <<>>)

\* a variant of removeNonDigits that stops at the first character after the
\* leading digits, as a prefix-parsing atoi would
RECURSIVE removeNonDigitsPrefixOnly(_)
removeNonDigitsPrefixOnly(s) ==
  IF s = <<>> \/ ~IsDigit(Head(s)) THEN <<>>
  ELSE <<Head(s)>> \o removeNonDigitsPrefixOnly(Tail(s))

\* removeNonDigits: strings.Map keeps the runes '0'..'9', in order
RECURSIVE removeNonDigits(_)
removeNonDigits(s) ==
  IF s = <<>> THEN <<>>
  ELSE IF IsDigit(Head(s)) THEN <<Head(s)>> \o removeNonDigits(Tail(s))
  ELSE removeNonDigits(Tail(s))

\* strconv.Atoi on an unsigned decimal: (0, error) for "" and for any
\* character that is not a digit
RECURSIVE DecimalValue(_, _)
DecimalValue(s, acc) ==
  IF s = <<>> THEN acc ELSE DecimalValue(Tail(s), 10 * acc + DigitVal(Head(s)))

Atoi(s) ==
  IF s = <<>> \/ \E i \in 1..Len(s) : ~IsDigit(s[i])
  THEN [val |-> 0, err |-> TRUE]
  ELSE [val |-> DecimalValue(s, 0), err |-> FALSE]

(***************************************************************************)
(* The Go time package, as far as Parse uses it.                           *)
(***************************************************************************)
\* time.Time{}: 1 January of year 1, UTC
ZeroTime == [abs |-> 0, loc |-> "UTC"]

IsLeap(y) == y % 4 = 0 /\ (y % 100 # 0 \/ y % 400 = 0)

\* days of a common year before each month, and before the year's end
DaysBefore == <<0, 31, 59, 90, 120, 151, 181, 212, 243, 273, 304, 334, 365>>

\* days from 1 January of year 1 to 1 January of year y
DaysBeforeYear(y) ==
  LET p == y - 1 IN 365 * p + (p \div 4) - (p \div 100) + (p \div 400)

\* time.Date(year, month, day, 0, 0, 0, 0, loc): a month outside 1..12
\* overflows into the year, a day outside the month overflows into the
\* following (or preceding) months
TimeDate(year, month, day, loc) ==
  LET m == month - 1
      y == year + (m \div 12)
      mon == (m % 12) + 1
      leapDay == IF IsLeap(y) /\ mon >= 3 THEN 1 ELSE 0
  IN  [abs |-> DaysBeforeYear(y) + DaysBefore[mon] + leapDay + day - 1,
       loc |-> loc]

\* Time.Year, Time.YearDay - 1, Time.Month and Time.Day: the civil date of a
\* day number
CivilYear(n) ==
  LET n400 == n \div 146097
      r400 == n % 146097
      c100 == r400 \div 36524
      n100 == IF c100 > 3 THEN 3 ELSE c100
      r100 == r400 - 36524 * n100
      n4 == r100 \div 1461
      r4 == r100 % 1461
      c1 == r4 \div 365
      n1 == IF c1 > 3 THEN 3 ELSE c1
  IN  [year |-> 400 * n400 + 100 * n100 + 4 * n4 + n1 + 1,
       yday |-> r4 - 365 * n1]

DaysBeforeIn(y, mon) ==
  DaysBefore[mon] + (IF IsLeap(y) /\ mon >= 3 THEN 1 ELSE 0)

TimeYear(t) == CivilYear(t.abs).year

TimeMonth(t) ==
  LET c == CivilYear(t.abs)
  IN  CHOOSE mon \in 1..12 :
        /\ DaysBeforeIn(c.year, mon) <= c.yday
        /\ c.yday < DaysBeforeIn(c.year, mon + 1)

TimeDay(t) ==
  LET c == CivilYear(t.abs)
  IN  c.yday - DaysBeforeIn(c.year, TimeMonth(t)) + 1

\* the short month names of the time package
shortMonthNames ==
  <<<<"J", "a", "n">>, <<"F", "e", "b">>, <<"M", "a", "r">>,
    <<"A", "p", "r">>, <<"M", "a", "y">>, <<"J", "u", "n">>,
    <<"J", "u", "l">>, <<"A", "u", "g">>, <<"S", "e", "p">>,
    <<"O", "c", "t">>, <<"N", "o", "v">>, <<"D", "e", "c">>>>

\* match of time/format.go: equal, or equal letters when case is ignored
Match(s1, s2) ==
  \A i \in 1..Len(s1) :
    \/ s1[i] = s2[i]
    \/ /\ ToLowerRune(s1[i]) = ToLowerRune(s2[i])
       /\ ToLowerRune(s1[i]) \in LowerSet

\* lookup of time/format.go: the first name that is a prefix of val when case
\* is ignored, 0 when there is none
Lookup(tab, val) ==
  LET hits == {i \in 1..Len(tab) :
                 /\ Len(val) >= Len(tab[i])
                 /\ Match(SubSeq(val, 1, Len(tab[i])), tab[i])}
  IN  IF hits = {} THEN 0 ELSE CHOOSE i \in hits : \A j \in hits : i <= j

\* a variant of time.Parse("Jan", value) that matches the case exactly
TimeParseJanExactCase(value) ==
  IF \E i \in 1..12 : shortMonthNames[i] = value
  THEN [month |-> CHOOSE i \in 1..12 : shortMonthNames[i] = value, err |-> FALSE]
  ELSE [month |-> 0, err |-> TRUE]

\* time.Parse("Jan", value): the layout is the short month name alone, so the
\* value must be one short month name, in any case, and nothing else ("extra
\* text" otherwise); the Time returned is day 1 of that month of year 0
TimeParseJan(value) ==
  LET i == Lookup(shortMonthNames, value)
  IN  IF i = 0 \/ Len(value) > Len(shortMonthNames[i])
      THEN [month |-> 0, err |-> TRUE]
      ELSE [month |-> TimeMonth(TimeDate(0, i, 1, "UTC")), err |-> FALSE]

(***************************************************************************)
(* The data of src/dates.go.                                               *)
(***************************************************************************)
ErrDateEmpty == "date is empty"

NoError == "nil"

\* var spanishMonths = map[string]time.Month{...}
spanishMonthsTable ==
  <<"e", "n", "e">> :> 1 @@
  <<"f", "e", "b">> :> 2 @@
  <<"m", "a", "r">> :> 3 @@
  <<"a", "b", "r">> :> 4 @@
  <<"m", "a", "y">> :> 5 @@
  <<"j", "u", "n">> :> 6 @@
  <<"j", "u", "l">> :> 7 @@
  <<"a", "g", "o">> :> 8 @@
  <<"s", "e", "p">> :> 9 @@
  <<"o", "c", "t">> :> 10 @@
  <<"n", "o", "v">> :> 11 @@
  <<"d", "i", "c">> :> 12 @@
  <<"e", "n", "e", "r", "o">> :> 1 @@
  <<"f", "e", "b", "r", "e", "r", "o">> :> 2 @@
  <<"m", "a", "r", "z", "o">> :> 3 @@
  <<"a", "b", "r", "i", "l">> :> 4 @@
  <<"m", "a", "y", "o">> :> 5 @@
  <<"j", "u", "n", "i", "o">> :> 6 @@
  <<"j", "u", "l", "i", "o">> :> 7 @@
  <<"a", "g", "o", "s", "t", "o">> :> 8 @@
  <<"s", "e", "p", "t", "i", "e", "m", "b", "r", "e">> :> 9 @@
  <<"o", "c", "t", "u", "b", "r", "e">> :> 10 @@
  <<"n", "o", "v", "i", "e", "m", "b", "r", "e">> :> 11 @@
  <<"d", "i", "c", "i", "e", "m", "b", "r", "e">> :> 12

\* a variant of the map read that answers -1 for a key the map does not hold
MapGetOrMinusOne(m, k) == IF k \in DOMAIN m THEN m[k] ELSE -1

\* m[k] of a Go map: the zero value for a key the map does not hold
MapGet(m, k) == IF k \in DOMAIN m THEN m[k] ELSE 0

(***************************************************************************)
(* DateParser.Parse, piece by piece.                                       *)
(***************************************************************************)
\* a variant of the guard that forgets the string "//"
IsEmptyDateNoSlashes(dateStr) == dateStr = <<>>

\* a variant of the guard that takes every string of slashes and whitespace
\* for an empty date
IsEmptyDateBlank(dateStr) ==
  \A i \in 1..Len(dateStr) : dateStr[i] \in WhitespaceChars \cup {"/"}

\* dates.go:35, the guard of the early return
IsEmptyDate(dateStr) ==
  dateStr = <<>> \/ dateStr = <<"/", "/">>

\* a variant of the day step that takes the first of the month when the
\* segment has no digits
ParseDayDefaultOne(dayStr) ==
  IF Atoi(removeNonDigits(dayStr)).err THEN 1 ELSE Atoi(removeNonDigits(dayStr)).val

\* dates.go:42-43: day, _ := strconv.Atoi(removeNonDigits(dayStr))
ParseDay(dayStr) == Atoi(removeNonDigits(dayStr)).val

\* a variant of the month step that tries the names first, on the segment
\* without its digits, and the digits only when no name is found
ParseMonthNameFirst(months, monthStr) ==
  LET letters == SelectSeq(monthStr, LAMBDA r : ~IsDigit(r))
      m == TimeParseJan(letters)
      es == MapGet(months, ToLower(TrimSpace(letters)))
  IN  IF ~m.err THEN [val |-> m.month, via |-> "english"]
      ELSE IF es # 0 THEN [val |-> es, via |-> "spanish"]
      ELSE IF ~Atoi(removeNonDigits(monthStr)).err
      THEN [val |-> Atoi(removeNonDigits(monthStr)).val, via |-> "digits"]
      ELSE [val |-> 0, via |-> "spanish"]

\* a variant of the month step that takes January for a name it does not
\* know
ParseMonthDefaultJanuary(months, monthStr) ==
  LET num == Atoi(removeNonDigits(monthStr))
      m == TimeParseJan(monthStr)
      key == ToLower(TrimSpace(monthStr))
  IN  IF ~num.err THEN [val |-> num.val, via |-> "digits"]
      ELSE IF ~m.err THEN [val |-> m.month, via |-> "english"]
      ELSE [val |-> IF key \in DOMAIN months THEN months[key] ELSE 1,
            via |-> "spanish"]

\* a variant of the month step that looks the trimmed segment up in the
\* Spanish table without lowering its case
ParseMonthNoLower(months, monthStr) ==
  LET num == Atoi(removeNonDigits(monthStr))
      m == TimeParseJan(monthStr)
  IN  IF ~num.err THEN [val |-> num.val, via |-> "digits"]
      ELSE IF ~m.err THEN [val |-> m.month, via |-> "english"]
      ELSE [val |-> MapGet(months, TrimSpace(monthStr)), via |-> "spanish"]

\* dates.go:46-55: the digits of the month segment when it has any, else
\* the English short name, else the entry of the Spanish table; via tells
\* which of the three gave the month
ParseMonth(months, monthStr) ==
  LET num == Atoi(removeNonDigits(monthStr))
      m == TimeParseJan(monthStr)
  IN  IF ~num.err THEN [val |-> num.val, via |-> "digits"]
      ELSE IF ~m.err THEN [val |-> m.month, via |-> "english"]
      ELSE [val |-> MapGet(months, ToLower(TrimSpace(monthStr))),
            via |-> "spanish"]

\* dates.go:59-61
YearPivot == 100

Century == 2000

\* a variant of the year rule that keeps the year 0 of a segment without
\* digits
NormalizeYearKeepZero(year) ==
  IF year = 0 THEN 0
  ELSE IF year < YearPivot THEN year + Century
  ELSE year

\* a variant of the year rule with a pivot window: 50..99 are 1950..1999
NormalizeYearWindowed(year) ==
  IF year < 50 THEN year + Century
  ELSE IF year < YearPivot THEN year + 1900
  ELSE year

NormalizeYear(year) == IF year < YearPivot THEN year + Century ELSE year

\* dates.go:57-61
ParseYear(yearStr) == NormalizeYear(Atoi(removeNonDigits(yearStr)).val)

\* what a call leaves behind when it has not run
NoCall ==
  [outcome |-> "none", t |-> ZeroTime, err |-> NoError,
   day |-> 0, month |-> 0, year |-> 0, via |-> "none"]

\* a variant of the call that returns an error for a string of fewer than
\* three segments
ParseCallChecked(months, dateStr) ==
  IF IsEmptyDate(dateStr)
  THEN [NoCall EXCEPT !.outcome = "returned", !.err = ErrDateEmpty]
  ELSE LET parts == Split(dateStr)
       IN  IF Len(parts) < 3
           THEN [NoCall EXCEPT !.outcome = "returned", !.err = "invalid date"]
           ELSE LET day == ParseDay(parts[1])
                    mon == ParseMonth(months, parts[2])
                    year == ParseYear(parts[3])
                IN  [outcome |-> "returned",
                     t |-> TimeDate(year, mon.val, day, "Local"),
                     err |-> NoError,
                     day |-> day, month |-> mon.val, year |-> year,
                     via |-> mon.via]

\* a variant of the call that reads the last three segments
ParseCallLastThree(months, dateStr) ==
  IF IsEmptyDate(dateStr)
  THEN [NoCall EXCEPT !.outcome = "returned", !.err = ErrDateEmpty]
  ELSE LET parts == Split(dateStr)
           n == Len(parts)
       IN  IF n < 3
           THEN [NoCall EXCEPT !.outcome = "panic"]
           ELSE LET day == ParseDay(parts[n - 2])
                    mon == ParseMonth(months, parts[n - 1])
                    year == ParseYear(parts[n])
                IN  [outcome |-> "returned",
                     t |-> TimeDate(year, mon.val, day, "Local"),
                     err |-> NoError,
                     day |-> day, month |-> mon.val, year |-> year,
                     via |-> mon.via]

\* a variant of the call that refuses a month outside 1..12 and a day
\* outside 1..31
ParseCallRejecting(months, dateStr) ==
  IF IsEmptyDate(dateStr)
  THEN [NoCall EXCEPT !.outcome = "returned", !.err = ErrDateEmpty]
  ELSE LET parts == Split(dateStr)
       IN  IF Len(parts) < 3
           THEN [NoCall EXCEPT !.outcome = "panic"]
           ELSE LET day == ParseDay(parts[1])
                    mon == ParseMonth(months, parts[2])
                    year == ParseYear(parts[3])
                IN  IF mon.val \notin 1..12 \/ day \notin 1..31
                    THEN [NoCall EXCEPT !.outcome = "returned",
                                        !.err = "date out of range"]
                    ELSE [outcome |-> "returned",
                          t |-> TimeDate(year, mon.val, day, "Local"),
                          err |-> NoError,
                          day |-> day, month |-> mon.val, year |-> year,
                          via |-> mon.via]

\* a variant of the call that reads the string as month/day/year
ParseCallMonthFirst(months, dateStr) ==
  IF IsEmptyDate(dateStr)
  THEN [NoCall EXCEPT !.outcome = "returned", !.err = ErrDateEmpty]
  ELSE LET parts == Split(dateStr)
       IN  IF Len(parts) < 3
           THEN [NoCall EXCEPT !.outcome = "panic"]
           ELSE LET day == ParseDay(parts[2])
                    mon == ParseMonth(months, parts[1])
                    year == ParseYear(parts[3])
                IN  [outcome |-> "returned",
                     t |-> TimeDate(year, mon.val, day, "Local"),
                     err |-> NoError,
                     day |-> day, month |-> mon.val, year |-> year,
                     via |-> mon.via]

\* dates.go:34-64: the whole call on the table months.  outcome is
\* "returned", or "panic" when parts[1] or parts[2] is out of range; day,
\* month and year are the values handed to time.Date
ParseCall(months, dateStr) ==
  IF IsEmptyDate(dateStr)
  THEN [NoCall EXCEPT !.outcome = "returned", !.err = ErrDateEmpty]
  ELSE LET parts == Split(dateStr)
       IN  IF Len(parts) < 3
           THEN [NoCall EXCEPT !.outcome = "panic"]
           ELSE LET day == ParseDay(parts[1])
                    mon == ParseMonth(months, parts[2])
                    year == ParseYear(parts[3])
                IN  [outcome |-> "returned",
                     t |-> TimeDate(year, mon.val, day, "Local"),
                     err |-> NoError,
                     day |-> day, month |-> mon.val, year |-> year,
                     via |-> mon.via]

(***************************************************************************)
(* NewDateParser and its options.                                          *)
(***************************************************************************)
\* a nil pointer is the empty sequence, a pointer to v is <<v>>
Nil == <<>>

\* the reference dates the callers use (the first is the one of the tests)
RefDates == {TimeDate(2025, 6, 12, "Local"), TimeDate(1999, 12, 31, "Local")}

\* WithExpiryReferenceDate(date): the option, as the date it closes over
Options == RefDates

\* dates.go:20-24: the option applied to a parser
WithExpiryReferenceDate(date, p) ==
  [p EXCEPT !.expiryReferenceDate = <<date>>]

\* dates.go:26-32: every option is applied, in order, to an empty parser
RECURSIVE ApplyOptions(_, _)
ApplyOptions(p, options) ==
  IF options = <<>> THEN p
  ELSE ApplyOptions(WithExpiryReferenceDate(Head(options), p), Tail(options))

NewParser(options) == ApplyOptions([expiryReferenceDate |-> Nil], options)

OptionLists == UNION {[1..n -> Options] : n \in 0..MaxOpts}

(***************************************************************************)
(* The date strings the callers pass.  A string is put together segment by *)
(* segment; month names come in mixed case and padded with whitespace.     *)
(***************************************************************************)
DaySegs ==
  {<<>>, <<" ">>, <<"a">>, <<"0">>,
   <<"1">>, <<"0", "1">>, <<"1", "3">>, <<"2", "3">>,
   <<"2", "4">>, <<"3", "1">>, <<"4", "5">>, <<"9", "9">>, <<"o", "1">>,
   <<"2", "a", "3">>}

NumMonthSegs ==
  {<<>>, <<" ">>, <<"b">>, <<"0">>,
   <<"1">>, <<"0", "1">>, <<"0", "2">>, <<"0", "3">>, <<"0", "4">>,
   <<"1", "2">>, <<"1", "3">>, <<"e", "n", "e", "5">>, <<"1", "a", "2">>}

YearSegs ==
  {<<>>, <<" ">>, <<"c">>, <<"A", "C">>,
   <<"0">>, <<"2", "0">>, <<"2", "5">>, <<"9", "9">>,
   <<"1", "0", "0">>, <<"2", "0", "2">>, <<"2", "0", "2", "4">>, <<"2", "0", "2", "5">>,
   <<"o", ".", "2", "0">>, <<".", "2", "0", "2">>, <<"2", "5", "A", "C">>, <<"l", ".", "2", "0">>}

\* s with the letters at the positions in S in upper case
UpperAt(s, S) == [i \in 1..Len(s) |-> IF i \in S THEN ToUpperRune(s[i]) ELSE s[i]]

Min(a, b) == IF a < b THEN a ELSE b

CaseVariants(s) ==
  {UpperAt(s, S) : S \in SUBSET (1..Min(Len(s), MaxMixed))}
    \cup {UpperAt(s, 1..Len(s))}

Pads == {[i \in 1..n |-> c] : n \in 0..MaxPad, c \in WhitespaceChars}

MonthWords ==
  DOMAIN spanishMonthsTable
    \cup {ToLower(shortMonthNames[i]) : i \in 1..12}
    \cup {<<"x", "y", "z">>, <<"j", "u", "n", "e">>}

NameMonthSegs ==
  {l \o v \o r : l \in Pads, r \in Pads, v \in UNION {CaseVariants(w) : w \in MonthWords}}

\* the day and the year that go with a month name
NameDaySegs == {<<"2", "4">>}

NameYearSegs == {<<"o", ".", "2", "0">>}

ExtraSegs == {<<>>, <<"x", "y", "z">>}

\* the days of the strings that get a fourth segment
ExtraDaySegs == {<<>>, <<"1", "3">>, <<"2", "4">>}

\* the segments that may follow the segments parts
NextSegs(parts) ==
  CASE Len(parts) = 0 -> DaySegs
    [] Len(parts) = 1 ->
         NumMonthSegs \cup (IF parts[1] \in NameDaySegs THEN NameMonthSegs ELSE {})
    [] Len(parts) = 2 ->
         IF parts[2] \in NumMonthSegs THEN YearSegs ELSE NameYearSegs
    [] OTHER ->
         IF parts[1] \in ExtraDaySegs /\ parts[2] \in NumMonthSegs
         THEN ExtraSegs ELSE {}

(***************************************************************************)
(* The client of the OCR service (src/example/main.go:202-480).            *)
(*                                                                         *)
(* The libraries the client calls are modelled by what they do on the      *)
(* data of the model: encoding/base64 on the characters of the             *)
(* credentials, encoding/json on documents made of objects, arrays,        *)
(* strings without escapes, unsigned integers, null, true and false.       *)
(* The HTTP exchange and go-dateparser are the environment: every attempt  *)
(* ends in one of the outcomes of Outcomes, go-dateparser answers a string *)
(* with one of a few dates or with its own error.                          *)
(***************************************************************************)
\* most options handed to NewClient in one call
MaxClientOpts == 2
\* largest RetryMax of a client injected with WithRetryableClient
MaxCustomRetry == 2

\* main.go:256
DefaultRetryMax == 3

\* the byte of a character of the credentials
Ord(c) ==
  CASE c \in LowerSet -> 96 + (CHOOSE i \in 1..26 : Lowers[i] = c)
    [] c \in UpperSet -> 64 + (CHOOSE i \in 1..26 : Uppers[i] = c)
    [] c \in DigitSet -> 48 + DigitVal(c)
    [] c = ":" -> 58
    [] c = "." -> 46

Base64Alphabet == Uppers \o Lowers \o Digits \o <<"+", "/">>

\* base64.StdEncoding.EncodeToString: three bytes give four characters, a
\* last group of one or two bytes is padded with '='
RECURSIVE EncodeToString(_)
EncodeToString(b) ==
  IF Len(b) = 0 THEN <<>>
  ELSE IF Len(b) = 1
  THEN <<Base64Alphabet[(b[1] \div 4) + 1],
         Base64Alphabet[((b[1] % 4) * 16) + 1], "=", "=">>
  ELSE IF Len(b) = 2
  THEN <<Base64Alphabet[(b[1] \div 4) + 1],
         Base64Alphabet[((b[1] % 4) * 16) + (b[2] \div 16) + 1],
         Base64Alphabet[((b[2] % 16) * 4) + 1], "=">>
  ELSE <<Base64Alphabet[(b[1] \div 4) + 1],
         Base64Alphabet[((b[1] % 4) * 16) + (b[2] \div 16) + 1],
         Base64Alphabet[((b[2] % 16) * 4) + (b[3] \div 64) + 1],
         Base64Alphabet[(b[3] % 64) + 1]>>
       \o EncodeToString(SubSeq(b, 4, Len(b)))

\* []byte(s)
Bytes(s) == [i \in 1..Len(s) |-> Ord(s[i])]

\* main.go:220-225; the retryable client is its RetryMax
DefaultClient ==
  [BaseURL |-> <<>>, Username |-> <<>>, Password |-> <<>>,
   RetryableClient |-> [RetryMax |-> DefaultRetryMax]]

BaseURLs == {<<"h", "t", "t", "p", ":", "/", "/", "h">>, <<":">>}

Usernames == {<<>>, <<"u", "s", "e", "r">>}

Passwords == {<<>>, <<"p", "a", "s", "s">>}

CustomClients == {[RetryMax |-> n] : n \in 0..MaxCustomRetry}

NoOption ==
  [name |-> "none", baseURL |-> <<>>, username |-> <<>>, password |-> <<>>,
   client |-> Nil]

\* the options a caller hands to NewClient
ClientOptions ==
  {[NoOption EXCEPT !.name = "WithBaseURL", !.baseURL = u] : u \in BaseURLs}
    \cup {[NoOption EXCEPT !.name = "WithCredentials", !.username = u, !.password = p] :
            u \in Usernames, p \in Passwords}
    \cup {[NoOption EXCEPT !.name = "WithRetryableClient", !.client = <<rc>>] :
            rc \in CustomClients}

\* main.go:231-235
WithBaseURL(baseURL, c) == [c EXCEPT !.BaseURL = baseURL]

\* main.go:238-243
WithCredentials(username, password, c) ==
  [c EXCEPT !.Username = username, !.Password = password]

\* main.go:246-250
WithRetryableClient(rc, c) == [c EXCEPT !.RetryableClient = rc]

ApplyClientOption(o, c) ==
  CASE o.name = "WithBaseURL" -> WithBaseURL(o.baseURL, c)
    [] o.name = "WithCredentials" -> WithCredentials(o.username, o.password, c)
    [] o.name = "WithRetryableClient" -> WithRetryableClient(o.client[1], c)

\* main.go:266-268
RECURSIVE ApplyClientOptions(_, _)
ApplyClientOptions(c, opts) ==
  IF opts = <<>> THEN c
  ELSE ApplyClientOptions(ApplyClientOption(Head(opts), c), Tail(opts))

\* a variant of NewClient whose own retryable client retries five times
NewClientFiveRetries(opts) ==
  ApplyClientOptions([DefaultClient EXCEPT !.RetryableClient = [RetryMax |-> 5]], opts)

\* main.go:253-271
NewClient(opts) == ApplyClientOptions(DefaultClient, opts)

ClientOptionLists == UNION {[1..n -> ClientOptions] : n \in 0..MaxClientOpts}

(***************************************************************************)
(* encoding/json.                                                          *)
(***************************************************************************)
JSONWhitespace == {" ", "\t", "\n", "\r"}

\* what the decoder made of the text up to pos, or ok = FALSE
NoValue ==
  [ok |-> FALSE, pos |-> 0, kind |-> "invalid", str |-> <<>>, members |-> <<>>]

Scalar(kind, str, pos) ==
  [ok |-> TRUE, pos |-> pos, kind |-> kind, str |-> str, members |-> <<>>]

Composite(kind, members, pos) ==
  [ok |-> TRUE, pos |-> pos, kind |-> kind, str |-> <<>>, members |-> members]

RECURSIVE SkipWS(_, _)
SkipWS(s, i) ==
  IF i <= Len(s) /\ s[i] \in JSONWhitespace THEN SkipWS(s, i + 1) ELSE i

\* the place of the quote that closes the string whose text starts at i;
\* 0 when none does
RECURSIVE ScanString(_, _)
ScanString(s, i) ==
  IF i > Len(s) THEN 0
  ELSE IF s[i] = "\"" THEN i
  ELSE ScanString(s, i + 1)

\* the place after the digits that start at i
RECURSIVE ScanDigits(_, _)
ScanDigits(s, i) ==
  IF i <= Len(s) /\ IsDigit(s[i]) THEN ScanDigits(s, i + 1) ELSE i

HasLiteral(s, i, lit) ==
  i + Len(lit) - 1 <= Len(s) /\ SubSeq(s, i, i + Len(lit) - 1) = lit

RECURSIVE DecodeValue(_, _)
RECURSIVE DecodeMembers(_, _, _)
RECURSIVE DecodeElements(_, _, _)

\* the value that starts at i0, after whitespace
DecodeValue(s, i0) ==
  LET i == SkipWS(s, i0)
  IN  IF i > Len(s) THEN NoValue
      ELSE IF s[i] = "{"
      THEN IF SkipWS(s, i + 1) <= Len(s) /\ s[SkipWS(s, i + 1)] = "}"
           THEN Composite("object", <<>>, SkipWS(s, i + 1) + 1)
           ELSE DecodeMembers(s, SkipWS(s, i + 1), <<>>)
      ELSE IF s[i] = "["
      THEN IF SkipWS(s, i + 1) <= Len(s) /\ s[SkipWS(s, i + 1)] = "]"
           THEN Composite("array", <<>>, SkipWS(s, i + 1) + 1)
           ELSE DecodeElements(s, i + 1, <<>>)
      ELSE IF s[i] = "\""
      THEN IF ScanString(s, i + 1) = 0 THEN NoValue
           ELSE Scalar("string", SubSeq(s, i + 1, ScanString(s, i + 1) - 1),
                       ScanString(s, i + 1) + 1)
      ELSE IF IsDigit(s[i])
      THEN IF s[i] = "0" /\ ScanDigits(s, i) > i + 1 THEN NoValue
           ELSE Scalar("number", SubSeq(s, i, ScanDigits(s, i) - 1), ScanDigits(s, i))
      ELSE IF HasLiteral(s, i, <<"n", "u", "l", "l">>) THEN Scalar("null", <<>>, i + 4)
      ELSE IF HasLiteral(s, i, <<"t", "r", "u", "e">>) THEN Scalar("bool", <<"t", "r", "u", "e">>, i + 4)
      ELSE IF HasLiteral(s, i, <<"f", "a", "l", "s", "e">>) THEN Scalar("bool", <<"f", "a", "l", "s", "e">>, i + 5)
      ELSE NoValue

\* the members of an object from the member that starts at i; seen are the
\* members before it
DecodeMembers(s, i, seen) ==
  IF i > Len(s) \/ s[i] # "\"" \/ ScanString(s, i + 1) = 0 THEN NoValue
  ELSE LET j == ScanString(s, i + 1)
           k == SkipWS(s, j + 1)
       IN  IF k > Len(s) \/ s[k] # ":" THEN NoValue
           ELSE LET v == DecodeValue(s, k + 1)
                    m == SkipWS(s, v.pos)
                    all == Append(seen, [key |-> SubSeq(s, i + 1, j - 1), val |-> v])
                IN  IF ~v.ok \/ m > Len(s) THEN NoValue
                    ELSE IF s[m] = "}" THEN Composite("object", all, m + 1)
                    ELSE IF s[m] = "," THEN DecodeMembers(s, SkipWS(s, m + 1), all)
                    ELSE NoValue

\* the elements of an array from the element that starts at i
DecodeElements(s, i, seen) ==
  LET v == DecodeValue(s, i)
      m == SkipWS(s, v.pos)
      all == Append(seen, [key |-> <<>>, val |-> v])
  IN  IF ~v.ok \/ m > Len(s) THEN NoValue
      ELSE IF s[m] = "]" THEN Composite("array", all, m + 1)
      ELSE IF s[m] = "," THEN DecodeElements(s, m + 1, all)
      ELSE NoValue

\* the document that is the whole of data, or ok = FALSE
Decode(data) ==
  LET v == DecodeValue(data, 1)
  IN  IF v.ok /\ SkipWS(data, v.pos) > Len(data) THEN v ELSE NoValue


\* json.Marshal(ComprobanteDomicilioRequest{Comprobante: documentSource})
\* (main.go:336, 460-462), for a source without characters to escape
MarshalRequest(documentSource) ==
  <<"{", "\"", "c", "o", "m", "p", "r", "o", "b", "a", "n", "t", "e", "\"", ":", "\"">> \o documentSource \o <<"\"", "}">>

(***************************************************************************)
(* The environment of the client.                                          *)
(***************************************************************************)
EndpointComprobanteDomicilio == <<"/", "o", "c", "r", "/", "v", "2", "/", "c", "o", "m", "p", "r", "o", "b", "a", "n", "t", "e", "_", "d", "o", "m", "i", "c", "i", "l", "i", "o">>

DocumentSources == {<<"a", "G", "k", "=">>}

JSONRequests == {<<"{", "}">>}

\* bodies the service answers with
Bodies ==
  {<<>>, <<"{", "}">>, <<"n", "u", "l", "l">>, <<"\"", "o", "k", "\"">>, <<"<", "h", "t", "m", "l", ">">>, <<"[", "1", ",", " ", "2", "]">>, <<"0", "1">>,
   <<"{", "\"", "f", "e", "c", "h", "a", "\"", ":", "\"", "\"", "}">>,
   <<"{", "\"", "f", "e", "c", "h", "a", "\"", ":", "\"", "1", "3", "/", "0", "4", "\"", "}">>,
   <<"{", "\"", "f", "e", "c", "h", "a", "\"", ":", "1", "}">>,
   <<"{", "\"", "f", "e", "c", "h", "a", "\"", ":", "\"", "1", "3", "/", "0", "4", "/", "2", "0", "2", "5", "\"">>,
   <<"{", "\"", "F", "e", "c", "h", "a", "\"", ":", "\"", "0", "1", "/", "0", "2", "/", "2", "0", "2", "5", "\"", "}">>,
   <<" ", "{", "\"", "s", "t", "a", "t", "u", "s", "\"", ":", "\"", "O", "K", "\"", ",", " ", "\"", "f", "e", "c", "h", "a", "\"", ":", "\"", "2", "4", "/", "E", "N", "E", "/", "o", ".", "2", "0", "\"", "}", " ">>}

\* the bodies of the model, decoded
Decoded == [data \in Bodies |-> Decode(data)]

\* json.Unmarshal(body, &testJSON) returns nil (main.go:318-319)
ValidJSON(body) == Decoded[body].ok

\* the fields of ComprobanteDomicilioResponse the model follows
\* (main.go:368-396); err is the error of json.Unmarshal
EmptyResult ==
  [Fecha |-> <<>>, Status |-> <<>>, ParsedDate |-> ZeroTime, DateError |-> NoError]

StringFields == {<<"f", "e", "c", "h", "a">>, <<"s", "t", "a", "t", "u", "s">>}

SetField(result, key, str) ==
  IF ToLower(key) = <<"f", "e", "c", "h", "a">> THEN [result EXCEPT !.Fecha = str]
  ELSE [result EXCEPT !.Status = str]

\* the members of the object are stored one after the other: a key names a
\* field when it equals its tag without regard to case, a string is
\* stored, null leaves the field, any other value is a type error that
\* Unmarshal reports after it has stored the rest
RECURSIVE StoreMembers(_, _)
StoreMembers(members, st) ==
  IF members = <<>> THEN st
  ELSE LET m == Head(members)
       IN  StoreMembers(Tail(members),
             IF ToLower(m.key) \notin StringFields \/ m.val.kind = "null" THEN st
             ELSE IF m.val.kind = "string"
             THEN [st EXCEPT !.result = SetField(st.result, m.key, m.val.str)]
             ELSE [st EXCEPT !.err = TRUE])

\* json.Unmarshal([]byte(r.JSONData), result) (main.go:344-346, 468-469)
ParseResponse(JSONData) ==
  LET v == Decoded[JSONData]
      st == [result |-> EmptyResult, err |-> FALSE]
  IN  IF ~v.ok THEN [st EXCEPT !.err = TRUE]
      ELSE IF v.kind = "null" THEN st
      ELSE IF v.kind = "object" THEN StoreMembers(v.members, st)
      ELSE [st EXCEPT !.err = TRUE]

StatusCodes == {200, 401, 501, 503}

ResponseHeaders == {[ContentType |-> "application/json"], [ContentType |-> "text/html"]}

\* what one attempt of the HTTP client ends in: a transport error that the
\* retry policy retries ("error"), one it does not ("fatal"), the end of
\* the context ("ctx"), or a response, whose body may fail to be read
NoOutcome ==
  [kind |-> "none", StatusCode |-> 0, Header |-> [ContentType |-> ""],
   Body |-> <<>>, readErr |-> FALSE]

Responses ==
  {[NoOutcome EXCEPT !.kind = "response", !.StatusCode = s, !.Header = h, !.Body = b] :
     s \in StatusCodes, h \in ResponseHeaders, b \in Bodies}
    \cup {[NoOutcome EXCEPT !.kind = "response", !.StatusCode = s, !.readErr = TRUE] :
            s \in StatusCodes}

\* url.Parse refuses a URL that starts with the colon of an empty scheme
\* (main.go:286-289)
NewRequestFails(fullURL) == fullURL # <<>> /\ fullURL[1] = ":"

\* the HTTP client cannot send to a URL without a scheme
NoScheme(fullURL) == fullURL = <<>> \/ fullURL[1] = "/"

Outcomes(fullURL) ==
  IF NoScheme(fullURL) THEN {[NoOutcome EXCEPT !.kind = "fatal"]}
  ELSE {[NoOutcome EXCEPT !.kind = k] : k \in {"error", "ctx"}} \cup Responses

\* the retry policy of the retryable client: the end of the context and a
\* fatal error stop the loop, any other error, 429 and 5xx but 501 go on
CheckRetry(o) ==
  CASE o.kind \in {"ctx", "fatal"} -> FALSE
    [] o.kind = "error" -> TRUE
    [] o.kind = "response" ->
         \/ o.StatusCode = 429
         \/ o.StatusCode = 0
         \/ (o.StatusCode >= 500 /\ o.StatusCode # 501)

\* what RetryableClient.Do returns (main.go:302): the response of the last
\* attempt when the policy accepts it, no response and an error otherwise
DoFailed == [resp |-> Nil, err |-> "giving up"]

DoReturned(o) == [resp |-> <<o>>, err |-> NoError]

\* the errors of go-dateparser are not ErrDateEmpty
ErrDateparser == "dateparser: unknown format"

\* dates go-dateparser may find in a string: the day the date normaliser
\* finds in "01/02/2025", the day a reader that puts the month first
\* finds there, and the day of "24/ENE/o.20"
DateparserDates ==
  {TimeDate(2025, 2, 1, "Local"), TimeDate(2025, 1, 2, "UTC"),
   TimeDate(2020, 1, 24, "Local")}

\* dateparser.Parse(nil, fecha) (main.go:473): go-dateparser is not part
\* of the repository; it answers fecha with a date or with its error
DateparserOutcomes(fecha) ==
  {[t |-> d, err |-> NoError] : d \in DateparserDates}
    \cup {[t |-> ZeroTime, err |-> ErrDateparser]}

\* main.go:274-278
Response(o) == [JSONData |-> o.Body, StatusCode |-> o.StatusCode, Headers |-> o.Header]

NoReturn == [resp |-> Nil, result |-> Nil, err |-> "none"]

\* a variant of lines 295-299 that adds the header when either the
\* username or the password is set
AuthorizationHeaderEither(c) ==
  IF c.Username # <<>> \/ c.Password # <<>>
  THEN <<<<"B", "a", "s", "i", "c", " ">> \o EncodeToString(Bytes(c.Username \o <<":">> \o c.Password))>>
  ELSE Nil

\* main.go:295-299
AuthorizationHeader(c) ==
  IF c.Username # <<>> /\ c.Password # <<>>
  THEN <<<<"B", "a", "s", "i", "c", " ">> \o EncodeToString(Bytes(c.Username \o <<":">> \o c.Password))>>
  ELSE Nil

\* main.go:283-299: the request SendRequest prepares
PrepareRequest(c, endpoint, jsonRequest) ==
  [url |-> c.BaseURL \o endpoint,
   body |-> jsonRequest,
   ContentType |-> "application/json",
   Authorization |-> AuthorizationHeader(c)]

\* a variant of lines 303-331 that returns no Response with the error of a
\* body that is not JSON
SendRequestReturnNoBody(do) ==
  IF do.err # NoError THEN [NoReturn EXCEPT !.err = "error sending request"]
  ELSE IF do.resp[1].readErr THEN [NoReturn EXCEPT !.err = "error reading response body"]
  ELSE IF ~ValidJSON(do.resp[1].Body)
  THEN [NoReturn EXCEPT !.err = "API returned non-JSON response"]
  ELSE [NoReturn EXCEPT !.resp = <<Response(do.resp[1])>>, !.err = NoError]

\* a variant of lines 303-331 that takes a status of 400 or more for a
\* failure of the request
SendRequestReturnCheckingStatus(do) ==
  IF do.err # NoError THEN [NoReturn EXCEPT !.err = "error sending request"]
  ELSE IF do.resp[1].readErr THEN [NoReturn EXCEPT !.err = "error reading response body"]
  ELSE IF do.resp[1].StatusCode >= 400
  THEN [NoReturn EXCEPT !.resp = <<Response(do.resp[1])>>,
                        !.err = "API returned an error status"]
  ELSE IF ~ValidJSON(do.resp[1].Body)
  THEN [NoReturn EXCEPT !.resp = <<Response(do.resp[1])>>,
                        !.err = "API returned non-JSON response"]
  ELSE [NoReturn EXCEPT !.resp = <<Response(do.resp[1])>>, !.err = NoError]

\* main.go:303-331: what SendRequest returns after Do
SendRequestReturn(do) ==
  IF do.err # NoError THEN [NoReturn EXCEPT !.err = "error sending request"]
  ELSE IF do.resp[1].readErr THEN [NoReturn EXCEPT !.err = "error reading response body"]
  ELSE IF ~ValidJSON(do.resp[1].Body)
  THEN [NoReturn EXCEPT !.resp = <<Response(do.resp[1])>>,
                        !.err = "API returned non-JSON response"]
  ELSE [NoReturn EXCEPT !.resp = <<Response(do.resp[1])>>, !.err = NoError]

\* a variant of lines 468-479 that fails the call when the date of the
\* response cannot be read
ParseAndDateFailing(JSONData) ==
  LET parsed == ParseResponse(JSONData)
  IN  IF parsed.err
      THEN {[NoReturn EXCEPT !.err = "error parsing response"]}
      ELSE {IF dt.err = NoError
            THEN [NoReturn EXCEPT
                    !.err = NoError,
                    !.result = <<[parsed.result EXCEPT !.ParsedDate = dt.t,
                                                       !.DateError = dt.err]>>]
            ELSE [NoReturn EXCEPT !.err = "error parsing date"] :
              dt \in DateparserOutcomes(parsed.result.Fecha)}

\* main.go:468-479: the response is parsed and dateparser.Parse reads the
\* Fecha field; what SendComprobanteDomicilio may return for a body
ParseAndDate(JSONData) ==
  LET parsed == ParseResponse(JSONData)
  IN  IF parsed.err
      THEN {[NoReturn EXCEPT !.err = "error parsing response"]}
      ELSE {[NoReturn EXCEPT
               !.err = NoError,
               !.result = <<[parsed.result EXCEPT
                               !.ParsedDate = IF dt.err = NoError THEN dt.t ELSE ZeroTime,
                               !.DateError = dt.err]>>] :
              dt \in DateparserOutcomes(parsed.result.Fecha)}

\* main.go:463-479: what SendComprobanteDomicilio may return after Do
SendComprobanteDomicilioReturn(do) ==
  IF SendRequestReturn(do).err # NoError
  THEN {[NoReturn EXCEPT !.err = SendRequestReturn(do).err]}
  ELSE ParseAndDate(SendRequestReturn(do).resp[1].JSONData)

\* the call in flight: none
NoRequest ==
  [url |-> <<>>, body |-> <<>>, ContentType |-> "", Authorization |-> Nil]

NoDo == [resp |-> Nil, err |-> "none"]

IdleCall == [pc |-> "idle", api |-> "none", req |-> NoRequest, i |-> 0, do |-> NoDo]

\* the loop of Do stops before another attempt when no retry is left
GiveUp(retryMax, i) == retryMax - i <= 0

(***************************************************************************)
(* StringOrObject (main.go:398-423): a value that keeps the bytes of the   *)
(* JSON it was decoded from.  Byte slices are modelled with the memory     *)
(* they point into: mem[a] is the array a (<<>> when a is not allocated),  *)
(* a slice is the array it starts in, its length and its capacity, and the *)
(* nil slice points nowhere.                                               *)
(***************************************************************************)
MaxArrays == 4

Arrays == 1..MaxArrays

\* a byte that nothing has written
NUL == "NUL"

NilSlice == [arr |-> 0, len |-> 0, cap |-> 0]

Zeroed(n) == [i \in 1..n |-> NUL]

\* copy(array, bytes)
Store(array, bytes) ==
  [i \in 1..Len(array) |-> IF i <= Len(bytes) THEN bytes[i] ELSE array[i]]

\* the bytes a slice shows
Contents(m, sl) == IF sl.arr = 0 THEN <<>> ELSE SubSeq(m[sl.arr], 1, sl.len)

\* the sizes the allocator of the Go runtime hands out for small objects
SizeClasses == <<8, 16, 24, 32, 48, 64>>

roundupsize(n) ==
  SizeClasses[CHOOSE i \in 1..Len(SizeClasses) :
                /\ SizeClasses[i] >= n
                /\ \A j \in 1..(i - 1) : SizeClasses[j] < n]

\* the capacity append asks for when the array is too small: the length
\* that is needed when it is more than twice the old capacity, twice the
\* old capacity otherwise
growslice(oldCap, newLen) ==
  roundupsize(IF newLen > 2 * oldCap THEN newLen ELSE 2 * oldCap)

\* an array that is not allocated
Alloc(m) == CHOOSE a \in Arrays : m[a] = <<>> /\ \A b \in Arrays : b < a => m[b] # <<>>

\* the garbage collector frees what no slice of live points into
Collect(m, live) ==
  [a \in Arrays |-> IF \E sl \in live : sl.arr = a THEN m[a] ELSE <<>>]

\* append(sl[:0], bytes...) (main.go:412): the bytes are copied into the
\* array of sl when it has room for them, into a new array otherwise;
\* with nothing to append the slice is returned as it is
AppendFromStart(m, sl, bytes) ==
  IF Len(bytes) = 0 THEN [raw |-> [sl EXCEPT !.len = 0], mem |-> m]
  ELSE IF Len(bytes) <= sl.cap
  THEN [raw |-> [sl EXCEPT !.len = Len(bytes)],
        mem |-> [m EXCEPT ![sl.arr] = Store(@, bytes)]]
  ELSE LET a == Alloc(m)
           c == growslice(sl.cap, Len(bytes))
       IN  [raw |-> [arr |-> a, len |-> Len(bytes), cap |-> c],
            mem |-> [m EXCEPT ![a] = Store(Zeroed(c), bytes)]]

ErrNilReceiver == "StringOrObject: nil receiver"

\* a variant of UnmarshalJSON that keeps the slice it is given
UnmarshalJSONKeepingData(recv, raw, data, m) ==
  IF recv = "nil" THEN [raw |-> raw, mem |-> m, err |-> ErrNilReceiver]
  ELSE [raw |-> data, mem |-> m, err |-> NoError]

\* main.go:403-414: so.UnmarshalJSON(data), recv is the pointer so
UnmarshalJSON(recv, raw, data, m) ==
  IF recv = "nil" THEN [raw |-> raw, mem |-> m, err |-> ErrNilReceiver]
  ELSE IF data.arr = 0 THEN [raw |-> NilSlice, mem |-> m, err |-> NoError]
  ELSE LET r == AppendFromStart(m, raw, Contents(m, data))
       IN  [raw |-> r.raw, mem |-> r.mem, err |-> NoError]

\* main.go:417-423: so.MarshalJSON() returns the slice it holds, or a new
\* slice with null
MarshalJSON(raw, m) ==
  IF raw.arr = 0
  THEN LET a == Alloc(m)
           c == roundupsize(Len(<<"n", "u", "l", "l">>))
       IN  [out |-> [arr |-> a, len |-> Len(<<"n", "u", "l", "l">>), cap |-> c],
            mem |-> [m EXCEPT ![a] = Store(Zeroed(c), <<"n", "u", "l", "l">>)]]
  ELSE [out |-> raw, mem |-> m]

\* the JSON values a caller decodes: strings and objects
JSONValues ==
  {<<"{", "}">>, <<"\"", "a", "b", "\"">>, <<"{", "\"", "k", "\"", ":", "\"", "v", "\"", "}">>}

\* the byte slices a caller passes: a JSON value, no byte, or nil
Datas == JSONValues \cup {<<>>}

\* the buffer of the caller holds the longest of them
BufCap == CHOOSE n \in 1..64 : (\E d \in Datas : Len(d) = n) /\ (\A d \in Datas : Len(d) <= n)

Buf == [arr |-> 1, len |-> BufCap, cap |-> BufCap]

\* nothing has been stored
Unset == [set |-> FALSE, bytes |-> <<>>]

NoOp == [name |-> "none", err |-> NoError]

(***************************************************************************)
(* The sanitizer of the test fixtures (cmd/sanitize-fixtures/main.go): it  *)
(* reads every .json file of a directory, replaces the values that may     *)
(* identify a person and writes the file back.  A decoded JSON value is a  *)
(* record: its kind, the text of a string, the value of a number, and the  *)
(* keys and the items of an object or the items of an array.               *)
(***************************************************************************)
MaxItems == 2

Str(s) == [kind |-> "string", str |-> s, num |-> 0, keys |-> <<>>, items |-> <<>>]

Num(n) == [kind |-> "number", str |-> <<>>, num |-> n, keys |-> <<>>, items |-> <<>>]

\* true, false, null, and a file that is not JSON
Other(kind) == [kind |-> kind, str |-> <<>>, num |-> 0, keys |-> <<>>, items |-> <<>>]

Arr(items) == [kind |-> "array", str |-> <<>>, num |-> 0, keys |-> <<>>, items |-> items]

Obj(keys, items) == [kind |-> "object", str |-> <<>>, num |-> 0, keys |-> keys, items |-> items]

\* main.go:16, main.go:19, main.go:22: the alternatives of the patterns
piiKeyPattern ==
  {<<"n", "o", "m", "b", "r", "e">>,
   <<"c", "a", "l", "l", "e">>,
   <<"c", "o", "l", "o", "n", "i", "a">>,
   <<"c", "i", "u", "d", "a", "d">>,
   <<"c", "p">>,
   <<"c", "o", "d", "i", "g", "o", "P", "o", "s", "t", "a", "l">>,
   <<"n", "u", "m", "e", "r", "o", "S", "e", "r", "v", "i", "c", "i", "o">>,
   <<"n", "u", "m", "e", "r", "o", "M", "e", "d", "i", "d", "o", "r">>,
   <<"r", "e", "f", "e", "r", "e", "n", "c", "i", "a">>,
   <<"c", "o", "d", "i", "g", "o", "B", "a", "r", "r", "a", "s">>,
   <<"c", "o", "d", "i", "g", "o", "N", "u", "m", "e", "r", "i", "c", "o">>,
   <<"c", "o", "d", "i", "g", "o", "V", "a", "l", "i", "d", "a", "c", "i", "o", "n">>,
   <<"q", "r">>,
   <<"r", "m", "u", "2">>,
   <<"m", "u", "l", "t", "i", "p", "l", "i", "c", "a", "d", "o", "r">>,
   <<"t", "a", "r", "i", "f", "a">>,
   <<"s", "t", "a", "t", "u", "s">>,
   <<"t", "i", "p", "o">>,
   <<"c", "l", "a", "v", "e", "M", "e", "n", "s", "a", "j", "e">>}

amountKeyPattern == {<<"t", "o", "t", "a", "l", "P", "a", "g", "a", "r">>, <<"t", "o", "t", "a", "l", "P", "a", "g", "a", "r", "2">>}

dateKeyPattern == {<<"f", "e", "c", "h", "a">>, <<"f", "e", "c", "h", "a", "L", "i", "m", "i", "t", "e", "P", "a", "g", "o">>, <<"p", "e", "r", "i", "o", "d", "o", "F", "a", "c", "t", "u", "r", "a", "d", "o">>}

\* pattern.MatchString(key) for a pattern (?i)^(a|b|...)$: the key is one
\* of the alternatives, whatever the case of its letters
MatchString(pattern, key) == \E a \in pattern : ToLower(a) = ToLower(key)

HexDigits == <<"0", "1", "2", "3", "4", "5", "6", "7", "8", "9", "a", "b", "c", "d", "e", "f">>

\* fmt.Sprintf("%04x", n) for n below 2^16
Hex4(n) ==
  <<HexDigits[(n \div 4096) + 1], HexDigits[((n \div 256) % 16) + 1],
    HexDigits[((n \div 16) % 16) + 1], HexDigits[(n % 16) + 1]>>

\* a ^ b on the low bits of a and b
RECURSIVE Xor(_, _, _)
Xor(a, b, bits) ==
  IF bits = 0 THEN 0
  ELSE ((a + b) % 2) + 2 * Xor(a \div 2, b \div 2, bits - 1)

\* main.go:166: uint32(2166136261), as its two halves of 16 bits
FNVOffset == [hi |-> 33052, lo |-> 40389]

\* main.go:169: 16777619 is 2^24 + 403
FNVPrimeLow == 403

Half == 65536

\* main.go:168-169: h ^= uint32(b); h *= 16777619, modulo 2^32
HashStep(h, b) ==
  LET lo == (h.lo - (h.lo % 256)) + Xor(h.lo % 256, b, 8)
      low == lo * FNVPrimeLow
  IN  [lo |-> low % Half,
       hi |-> (h.hi * FNVPrimeLow + (low \div Half) + (lo % 256) * 256) % Half]

RECURSIVE HashFrom(_, _, _)
HashFrom(h, s, i) ==
  IF i > Len(s) THEN h ELSE HashFrom(HashStep(h, Ord(s[i])), s, i + 1)

\* main.go:164-172
hashLike(s) ==
  LET h == HashFrom(FNVOffset, s, 1)
  IN  Hex4(h.hi) \o Hex4(h.lo)

\* main.go:133-162: the switch compares strings.ToLower(key) with the case
\* labels as they are written
placeholderForKey(key, context) ==
  LET k == ToLower(key)
  IN  CASE k = <<"n", "o", "m", "b", "r", "e">> -> <<"A", "N", "O", "N", " ", "U", "S", "E", "R">>
        [] k = <<"c", "a", "l", "l", "e">> -> <<"C", "A", "L", "L", "E", " ", "F", "A", "L", "S", "A", " ", "1", "2", "3">>
        [] k = <<"c", "o", "l", "o", "n", "i", "a">> -> <<"C", "O", "L", "O", "N", "I", "A", " ", "F", "A", "L", "S", "A">>
        [] k = <<"c", "i", "u", "d", "a", "d">> -> <<"C", "I", "U", "D", "A", "D", " ", "A", "N", "O", "N">>
        [] k \in {<<"c", "p">>, <<"c", "o", "d", "i", "g", "o", "P", "o", "s", "t", "a", "l">>} -> <<"0", "0", "0", "0", "0">>
        [] k = <<"q", "r">> -> <<"Q", "R", "-", "A", "N", "O", "N", "-">> \o hashLike(context)
        [] k = <<"c", "o", "d", "i", "g", "o", "B", "a", "r", "r", "a", "s">> -> <<"C", "B", "-", "A", "N", "O", "N", "-">> \o hashLike(context)
        [] k \in {<<"c", "o", "d", "i", "g", "o", "N", "u", "m", "e", "r", "i", "c", "o">>, <<"c", "o", "d", "i", "g", "o", "V", "a", "l", "i", "d", "a", "c", "i", "o", "n">>, <<"r", "m", "u", "2">>, <<"m", "u", "l", "t", "i", "p", "l", "i", "c", "a", "d", "o", "r">>,
                  <<"r", "e", "f", "e", "r", "e", "n", "c", "i", "a">>, <<"n", "u", "m", "e", "r", "o", "S", "e", "r", "v", "i", "c", "i", "o">>, <<"n", "u", "m", "e", "r", "o", "M", "e", "d", "i", "d", "o", "r">>} ->
             <<"A", "N", "O", "N", "-">> \o hashLike(context)
        [] k = <<"t", "a", "r", "i", "f", "a">> -> <<"T", "-", "A", "N", "O", "N">>
        [] k = <<"s", "t", "a", "t", "u", "s">> -> <<"O", "K">>
        [] k = <<"t", "i", "p", "o">> -> <<"A", "N", "O", "N">>
        [] k = <<"c", "l", "a", "v", "e", "M", "e", "n", "s", "a", "j", "e">> -> <<"M", "E", "N", "S", "A", "J", "E", "-", "A", "N", "O", "N">>
        [] OTHER -> <<"A", "N", "O", "N">>

\* strings.Contains(s, c) for a string c of one character
Contains(s, c) == \E i \in 1..Len(s) : s[i] = c

\* main.go:174-176
looksLikeEmail(s) == Contains(s, "@") /\ Contains(s, ".")

\* main.go:178-186
looksLikePhone(s) ==
  LET digits == Cardinality({i \in 1..Len(s) : IsDigit(s[i])})
  IN  digits >= 10 /\ digits <= 15

\* main.go:188-198
looksLikeBigNumber(s) == Len(s) >= 8 /\ \A i \in 1..Len(s) : IsDigit(s[i])

\* strings.Repeat("X", n)
RepeatX(n) == [i \in 1..n |-> "X"]

\* main.go:200-206: a day of the last two years as YYYY-MM-DD; which one
\* depends on the clock and on the random source
FakeDates == {<<"2", "0", "2", "6", "-", "1", "1", "-", "0", "4">>, <<"2", "0", "2", "5", "-", "0", "2", "-", "2", "8">>}

\* main.go:125: 100000 + rnd.Intn(900000)
RandomIdentifiers == {100000, 543210, 999999}

\* the ways to take one element of each set of a sequence of sets
Choices(sets) ==
  {f \in [1..Len(sets) -> UNION {sets[i] : i \in 1..Len(sets)}] :
     \A i \in 1..Len(sets) : f[i] \in sets[i]}

\* main.go:83-131: the values sanitizeValue may return
RECURSIVE sanitizeValue(_, _, _)
sanitizeValue(key, v, context) ==
  CASE v.kind = "object" ->
         {[v EXCEPT !.items = f] :
            f \in Choices([i \in 1..Len(v.items) |->
                             sanitizeValue(v.keys[i], v.items[i], context)])}
    [] v.kind = "array" ->
         {[v EXCEPT !.items = f] :
            f \in Choices([i \in 1..Len(v.items) |->
                             sanitizeValue(key, v.items[i], context)])}
    [] v.kind = "string" ->
         IF MatchString(amountKeyPattern, key) THEN {Str(<<"1", "0", "0", ".", "0", "0">>)}
         ELSE IF MatchString(dateKeyPattern, key) THEN {Str(d) : d \in FakeDates}
         ELSE IF MatchString(piiKeyPattern, key) THEN {Str(placeholderForKey(key, context))}
         ELSE IF looksLikeEmail(v.str) THEN {Str(<<"a", "n", "o", "n", "@", "e", "x", "a", "m", "p", "l", "e", ".", "c", "o", "m">>)}
         ELSE IF looksLikePhone(v.str) THEN {Str(<<"+", "5", "2", "0", "0", "0", "0", "0", "0", "0", "0", "0", "0">>)}
         ELSE IF looksLikeBigNumber(v.str) THEN {Str(RepeatX(Len(v.str)))}
         ELSE {v}
    [] v.kind = "number" ->
         IF MatchString(amountKeyPattern, key) THEN {Num(100)}
         ELSE IF MatchString(piiKeyPattern, key) THEN {Num(n) : n \in RandomIdentifiers}
         ELSE {v}
    [] OTHER -> {v}

\* strings.HasSuffix
HasSuffix(s, suffix) ==
  Len(s) >= Len(suffix) /\ SubSeq(s, Len(s) - Len(suffix) + 1, Len(s)) = suffix

\* the files of the directory
FileNames == {<<"a", ".", "j", "s", "o", "n">>, <<"B", ".", "J", "S", "O", "N">>, <<"a", ".", "t", "x", "t">>}

\* the keys of the fixtures: those of the pattern as the service writes
\* them, some in other cases, an amount, a date and keys of no pattern
FixtureKeys ==
  piiKeyPattern \cup
    {<<"N", "o", "m", "b", "r", "e">>, <<"C", "P">>, <<"c", "o", "d", "i", "g", "o", "b", "a", "r", "r", "a", "s">>, <<"C", "O", "D", "I", "G", "O", "B", "A", "R", "R", "A", "S">>,
     <<"t", "o", "t", "a", "l", "P", "a", "g", "a", "r">>, <<"f", "e", "c", "h", "a">>, <<"n", "o", "m", "b", "r", "e", "s">>, <<"e", "m", "a", "i", "l">>}

FixtureStrings == {<<"J", "U", "A", "N">>, <<"a", "@", "b", ".", "c">>, <<"5", "5", "1", "2", "3", "4", "5", "6", "7", "8">>, <<"1", "2", "3", "4", "5", "6", "7", "8">>}

FixtureScalars ==
  {Str(t) : t \in FixtureStrings} \cup {Num(42), Other("bool"), Other("null")}

ItemScalars == {Str(<<"J", "U", "A", "N">>), Num(42)}

FixtureArrays ==
  {Arr(items) : items \in UNION {[1..n -> ItemScalars] : n \in 1..MaxItems}}

NestedKeys == {<<"n", "o", "m", "b", "r", "e">>, <<"c", "o", "d", "i", "g", "o", "B", "a", "r", "r", "a", "s">>, <<"e", "m", "a", "i", "l">>}

NestedObjects == {Obj(<<k>>, <<x>>) : k \in NestedKeys, x \in ItemScalars}

\* what a file may hold: an object with one member, a lone scalar, or
\* text that is not JSON
Fixtures ==
  {Obj(<<k>>, <<x>>) :
     k \in FixtureKeys, x \in FixtureScalars \cup FixtureArrays \cup NestedObjects}
    \cup FixtureScalars \cup {Other("invalid")}

NoRun == [state |-> "none", before |-> Other("null")]

(***************************************************************************)
(* The state.  parser and spanishMonths are the data every call shares.    *)
(* A lone caller holds dateStr (nseg segments so far) and call, what the   *)
(* last call of Parse left; earlier is the set of errors that the calls    *)
(* before have returned.  Concurrent callers are the goroutines: gor[g]    *)
(* holds the line g has reached in Parse and its local variables, acc[g]   *)
(* the shared data its call in flight has read (r) and written (w).        *)
(* client, clientOpts, inflight, wire and ret are the state of the client   *)
(* of the OCR service and of its caller.  so is a StringOrObject, mem the   *)
(* memory its slices point into, out the slice the last MarshalJSON has    *)
(* returned, given what the last UnmarshalJSON was given and op the last   *)
(* operation on so.  fixture is what a file of fixtures holds, fileName    *)
(* its name and run what the last run of the sanitizer did with it.       *)
(***************************************************************************)
VARIABLES parser, spanishMonths, dateStr, nseg, call, earlier, gor, acc,
          client, clientOpts, inflight, wire, ret,
          so, mem, out, given, op,
          fixture, fileName, run

vars == <<parser, spanishMonths, dateStr, nseg, call, earlier, gor, acc,
          client, clientOpts, inflight, wire, ret,
          so, mem, out, given, op,
          fixture, fileName, run>>

dateVars == <<parser, spanishMonths, dateStr, nseg, call, earlier, gor, acc>>

clientVars == <<client, clientOpts, inflight, wire, ret>>

shapeVars == <<so, mem, out, given, op>>

fixtureVars == <<fixture, fileName, run>>

\* the client before anything has called it
ClientUnused ==
  /\ client = NewClient(<<>>)
  /\ clientOpts = <<>>
  /\ inflight = IdleCall
  /\ wire = <<>>
  /\ ret = NoReturn

\* no file is being sanitized
FixtureUnused ==
  /\ fixture = Other("null")
  /\ fileName = <<>>
  /\ run = NoRun

\* a StringOrObject that nothing has decoded into, and the buffer of its
\* caller
ShapeUnused ==
  /\ so = [raw |-> NilSlice]
  /\ mem = [a \in Arrays |-> IF a = Buf.arr THEN Zeroed(BufCap) ELSE <<>>]
  /\ out = NilSlice
  /\ given = Unset
  /\ op = NoOp

Goroutines == 1..NumGoroutines

\* a goroutine that is not inside Parse
IdleG ==
  [pc |-> "idle", dateStr |-> <<>>, parts |-> <<>>, day |-> 0, month |-> 0,
   year |-> 0, t |-> ZeroTime, err |-> NoError]

NoAccess == [r |-> {}, w |-> {}]

Init ==
  /\ parser = NewParser(<<>>)
  /\ spanishMonths = spanishMonthsTable
  /\ dateStr = <<>>
  /\ nseg = 0
  /\ call = NoCall
  /\ earlier = {}
  /\ gor = [g \in Goroutines |-> IdleG]
  /\ acc = [g \in Goroutines |-> NoAccess]
  /\ ClientUnused
  /\ ShapeUnused
  /\ FixtureUnused

\* p = NewDateParser(options...)
NewDateParser(options) ==
  /\ call.outcome # "panic"
  /\ parser' = NewParser(options)
  /\ UNCHANGED <<spanishMonths, dateStr, nseg, call, earlier, gor, acc>>
  /\ UNCHANGED <<clientVars, shapeVars, fixtureVars>>

\* the segments of the string the caller is putting together: none when the
\* last string has been parsed
ComposedParts ==
  IF call.outcome = "returned" \/ nseg = 0 THEN <<>> ELSE Split(dateStr)

\* the caller starts a new date string after a call, or adds a segment to
\* the one it is putting together
Compose(seg) ==
  /\ call.outcome # "panic"
  /\ Len(ComposedParts) < MaxSegs
  /\ dateStr' = IF ComposedParts = <<>> THEN seg ELSE dateStr \o <<"/">> \o seg
  /\ nseg' = Len(ComposedParts) + 1
  /\ call' = NoCall
  /\ UNCHANGED <<parser, spanishMonths, earlier, gor, acc>>
  /\ UNCHANGED <<clientVars, shapeVars, fixtureVars>>

\* a variant of Parse that reads the reference date of the parser: a year
\* after the year of the reference date is taken a century earlier
ParseWithReference ==
  /\ call.outcome # "panic"
  /\ LET c == ParseCall(spanishMonths, dateStr)
         ref == parser.expiryReferenceDate
     IN  call' = IF /\ c.outcome = "returned"
                    /\ c.err = NoError
                    /\ ref # Nil
                    /\ c.year > TimeYear(ref[1])
                 THEN [c EXCEPT !.year = c.year - 100,
                                !.t = TimeDate(c.year - 100, c.month, c.day, "Local")]
                 ELSE c
  /\ earlier' = IF call'.outcome = "returned" THEN earlier \cup {call'.err} ELSE earlier
  /\ UNCHANGED <<parser, spanishMonths, dateStr, nseg, gor, acc>>
  /\ UNCHANGED <<clientVars, shapeVars, fixtureVars>>

\* a variant of Parse that keeps the date it returns as the reference date
\* of the parser
ParseKeepingReference ==
  /\ call.outcome # "panic"
  /\ call' = ParseCall(spanishMonths, dateStr)
  /\ earlier' = IF call'.outcome = "returned" THEN earlier \cup {call'.err} ELSE earlier
  /\ parser' = IF call'.outcome = "returned" /\ call'.err = NoError
               THEN [parser EXCEPT !.expiryReferenceDate = <<call'.t>>]
               ELSE parser
  /\ UNCHANGED <<spanishMonths, dateStr, nseg, gor, acc>>
  /\ UNCHANGED <<clientVars, shapeVars, fixtureVars>>

\* t, err := p.Parse(dateStr)
Parse ==
  /\ call.outcome # "panic"
  /\ call' = ParseCall(spanishMonths, dateStr)
  /\ earlier' = IF call'.outcome = "returned" THEN earlier \cup {call'.err} ELSE earlier
  /\ UNCHANGED <<parser, spanishMonths, dateStr, nseg, gor, acc>>
  /\ UNCHANGED <<clientVars, shapeVars, fixtureVars>>

Next ==
  \/ \E options \in OptionLists : NewDateParser(options)
  \/ \E seg \in NextSegs(ComposedParts) : Compose(seg)
  \/ Parse

Spec == Init /\ [][Next]_vars

(***************************************************************************)
(* Parse called by several goroutines on one parser, line by line.  A      *)
(* panic that nothing recovers ends the program.                           *)
(***************************************************************************)
\* the date strings of the concurrent callers
ConcInputs ==
  {<<>>, <<"/", "/">>, <<"1", "3", "/", "0", "4">>, <<"1", "3", "/", "0", "4", "/", "2", "0", "2", "5">>,
   <<"2", "4", "/", " ", "E", "N", "E", "/", "o", ".", "2", "0">>, <<"1", "0", "/", "J", "u", "n", "/", "o", ".", "2", "0">>, <<"1", "/", "x", "y", "z", "/", "9", "9">>}

Running == \A g \in Goroutines : gor[g].pc # "panic"

SharedFrame ==
  /\ UNCHANGED <<parser, spanishMonths, dateStr, nseg, call, earlier>>
  /\ UNCHANGED <<clientVars, shapeVars, fixtureVars>>

\* the step of goroutine g that changes its locals to rec and touches no
\* shared data
LocalStep(g, rec) ==
  /\ gor' = [gor EXCEPT ![g] = rec]
  /\ UNCHANGED acc
  /\ SharedFrame

\* go p.Parse(s)
GoCall(g, s) ==
  /\ Running
  /\ gor[g].pc = "idle"
  /\ LocalStep(g, [IdleG EXCEPT !.pc = "L35", !.dateStr = s])

\* dates.go:35-37
L35(g) ==
  /\ Running
  /\ gor[g].pc = "L35"
  /\ IF IsEmptyDate(gor[g].dateStr)
     THEN LocalStep(g, [gor[g] EXCEPT !.pc = "done", !.t = ZeroTime, !.err = ErrDateEmpty])
     ELSE LocalStep(g, [gor[g] EXCEPT !.pc = "L39"])

\* dates.go:39-40
L39(g) ==
  /\ Running
  /\ gor[g].pc = "L39"
  /\ LET parts == Split(gor[g].dateStr)
     IN  IF Len(parts) < 3
         THEN LocalStep(g, [gor[g] EXCEPT !.pc = "panic"])
         ELSE LocalStep(g, [gor[g] EXCEPT !.pc = "L42", !.parts = parts])

\* dates.go:42-43
L42(g) ==
  /\ Running
  /\ gor[g].pc = "L42"
  /\ LocalStep(g, [gor[g] EXCEPT !.pc = "L46", !.day = ParseDay(gor[g].parts[1])])

\* dates.go:46-48
L46(g) ==
  /\ Running
  /\ gor[g].pc = "L46"
  /\ LET num == Atoi(removeNonDigits(gor[g].parts[2]))
     IN  LocalStep(g, [gor[g] EXCEPT !.pc = IF num.err THEN "L49" ELSE "L57",
                                     !.month = num.val])

\* dates.go:49-52
L49(g) ==
  /\ Running
  /\ gor[g].pc = "L49"
  /\ LET m == TimeParseJan(gor[g].parts[2])
     IN  IF m.err
         THEN LocalStep(g, [gor[g] EXCEPT !.pc = "L53"])
         ELSE LocalStep(g, [gor[g] EXCEPT !.pc = "L57", !.month = m.month])

\* a variant of line 53 that stores the month it found in the table, to
\* save the next lookup of the same segment
L53Memo(g) ==
  /\ Running
  /\ gor[g].pc = "L53"
  /\ LET key == ToLower(TrimSpace(gor[g].parts[2]))
         month == MapGet(spanishMonths, key)
     IN  /\ gor' = [gor EXCEPT ![g] = [gor[g] EXCEPT !.pc = "L57", !.month = month]]
         /\ spanishMonths' = (key :> month) @@ spanishMonths
  /\ acc' = [acc EXCEPT ![g] = [r |-> acc[g].r \cup {"spanishMonths"},
                                w |-> acc[g].w \cup {"spanishMonths"}]]
  /\ UNCHANGED <<parser, dateStr, nseg, call, earlier>>
  /\ UNCHANGED <<clientVars, shapeVars, fixtureVars>>

\* dates.go:53: the read of the package's table
L53(g) ==
  /\ Running
  /\ gor[g].pc = "L53"
  /\ gor' = [gor EXCEPT ![g] =
               [gor[g] EXCEPT !.pc = "L57",
                              !.month = MapGet(spanishMonths, ToLower(TrimSpace(gor[g].parts[2])))]]
  /\ acc' = [acc EXCEPT ![g] = [acc[g] EXCEPT !.r = acc[g].r \cup {"spanishMonths"}]]
  /\ SharedFrame

\* dates.go:57-61
L57(g) ==
  /\ Running
  /\ gor[g].pc = "L57"
  /\ LocalStep(g, [gor[g] EXCEPT !.pc = "L63", !.year = ParseYear(gor[g].parts[3])])

\* dates.go:63
L63(g) ==
  /\ Running
  /\ gor[g].pc = "L63"
  /\ LocalStep(g, [gor[g] EXCEPT
       !.pc = "done",
       !.t = TimeDate(gor[g].year, gor[g].month, gor[g].day, "Local"),
       !.err = NoError])

\* the caller has taken t and err; the call is over
GoReturn(g) ==
  /\ Running
  /\ gor[g].pc = "done"
  /\ gor' = [gor EXCEPT ![g] = IdleG]
  /\ acc' = [acc EXCEPT ![g] = NoAccess]
  /\ SharedFrame

ConcInit ==
  /\ parser \in {NewParser(options) : options \in OptionLists}
  /\ spanishMonths = spanishMonthsTable
  /\ dateStr = <<>>
  /\ nseg = 0
  /\ call = NoCall
  /\ earlier = {}
  /\ gor = [g \in Goroutines |-> IdleG]
  /\ acc = [g \in Goroutines |-> NoAccess]
  /\ ClientUnused
  /\ ShapeUnused
  /\ FixtureUnused

ConcNext ==
  \E g \in Goroutines :
    \/ \E s \in ConcInputs : GoCall(g, s)
    \/ L35(g)
    \/ L39(g)
    \/ L42(g)
    \/ L46(g)
    \/ L49(g)
    \/ L53(g)
    \/ L57(g)
    \/ L63(g)
    \/ GoReturn(g)

ConcSpec == ConcInit /\ [][ConcNext]_vars

(***************************************************************************)
(* The client at work.  One caller has built a client and calls            *)
(* SendRequest or SendComprobanteDomicilio; inflight is the call in         *)
(* flight: the line                                                        *)
(* it has reached, the request it prepared, the number i of the loop of    *)
(* Do and what Do returned.  wire holds the headers of every attempt of    *)
(* the call, ret what the call returned.                                   *)
(***************************************************************************)
\* c := NewClient(opts...): the caller has built its client, the date
\* normaliser is untouched
ClientInit ==
  /\ parser = NewParser(<<>>)
  /\ spanishMonths = spanishMonthsTable
  /\ dateStr = <<>>
  /\ nseg = 0
  /\ call = NoCall
  /\ earlier = {}
  /\ gor = [g \in Goroutines |-> IdleG]
  /\ acc = [g \in Goroutines |-> NoAccess]
  /\ clientOpts \in ClientOptionLists
  /\ client = NewClient(clientOpts)
  /\ inflight = IdleCall
  /\ wire = <<>>
  /\ ret = NoReturn
  /\ ShapeUnused
  /\ FixtureUnused

\* main.go:281-299: the request is prepared; a URL that does not parse
\* ends the call
Enter(api, endpoint, jsonRequest) ==
  /\ inflight.pc = "idle"
  /\ wire' = <<>>
  /\ IF NewRequestFails(client.BaseURL \o endpoint)
     THEN /\ inflight' = [IdleCall EXCEPT !.pc = "done", !.api = api]
          /\ ret' = [NoReturn EXCEPT !.err = "error creating HTTP request"]
     ELSE /\ inflight' = [IdleCall EXCEPT
                            !.pc = "do", !.api = api,
                            !.req = PrepareRequest(client, endpoint, jsonRequest)]
          /\ ret' = NoReturn
  /\ UNCHANGED <<client, clientOpts>>
  /\ UNCHANGED <<dateVars, shapeVars, fixtureVars>>

\* c.SendRequest(ctx, endpoint, jsonRequest)
SendRequest(endpoint, jsonRequest) == Enter("SendRequest", endpoint, jsonRequest)

\* c.SendComprobanteDomicilio(ctx, documentSource) (main.go:459-463, 335-340)
SendComprobanteDomicilio(documentSource) ==
  Enter("SendComprobanteDomicilio", EndpointComprobanteDomicilio,
        MarshalRequest(documentSource))

\* main.go:302: one attempt of the loop of Do, ending in o
Attempt(o) ==
  /\ inflight.pc = "do"
  /\ wire' = Append(wire, [ContentType |-> inflight.req.ContentType,
                           Authorization |-> inflight.req.Authorization])
  /\ inflight' =
       IF ~CheckRetry(o)
       THEN [inflight EXCEPT !.pc = "L303",
                             !.do = IF o.kind = "response" THEN DoReturned(o) ELSE DoFailed]
       ELSE IF GiveUp(client.RetryableClient.RetryMax, inflight.i)
       THEN [inflight EXCEPT !.pc = "L303", !.do = DoFailed]
       ELSE [inflight EXCEPT !.pc = "backoff"]
  /\ UNCHANGED <<client, clientOpts, ret>>
  /\ UNCHANGED <<dateVars, shapeVars, fixtureVars>>

\* main.go:302: the wait of Do before a retry; the context may end
\* during it
Backoff(ctxDone) ==
  /\ inflight.pc = "backoff"
  /\ inflight' =
       IF ctxDone
       THEN [inflight EXCEPT !.pc = "L303", !.do = DoFailed]
       ELSE [inflight EXCEPT !.pc = "do", !.i = inflight.i + 1]
  /\ UNCHANGED <<client, clientOpts, wire, ret>>
  /\ UNCHANGED <<dateVars, shapeVars, fixtureVars>>

\* main.go:303-331: SendRequest returns to its caller
ReturnSendRequest ==
  /\ inflight.pc = "L303"
  /\ inflight.api = "SendRequest"
  /\ ret' = SendRequestReturn(inflight.do)
  /\ inflight' = [inflight EXCEPT !.pc = "done"]
  /\ UNCHANGED <<client, clientOpts, wire>>
  /\ UNCHANGED <<dateVars, shapeVars, fixtureVars>>

\* main.go:303-331 and 464-479: SendRequest returns to
\* SendComprobanteDomicilio, which parses the response and has
\* dateparser.Parse read the Fecha field
ReturnSendComprobanteDomicilio ==
  /\ inflight.pc = "L303"
  /\ inflight.api = "SendComprobanteDomicilio"
  /\ ret' \in SendComprobanteDomicilioReturn(inflight.do)
  /\ inflight' = [inflight EXCEPT !.pc = "done"]
  /\ UNCHANGED <<client, clientOpts, wire>>
  /\ UNCHANGED <<dateVars, shapeVars, fixtureVars>>

\* the caller has taken what the call returned
TakeResult ==
  /\ inflight.pc = "done"
  /\ inflight' = IdleCall
  /\ wire' = <<>>
  /\ ret' = NoReturn
  /\ UNCHANGED <<client, clientOpts>>
  /\ UNCHANGED <<dateVars, shapeVars, fixtureVars>>

ClientNext ==
  \/ \E jsonRequest \in JSONRequests :
       SendRequest(EndpointComprobanteDomicilio, jsonRequest)
  \/ \E documentSource \in DocumentSources : SendComprobanteDomicilio(documentSource)
  \/ \E o \in Outcomes(inflight.req.url) : Attempt(o)
  \/ \E ctxDone \in BOOLEAN : Backoff(ctxDone)
  \/ ReturnSendRequest
  \/ ReturnSendComprobanteDomicilio
  \/ TakeResult

ClientSpec == ClientInit /\ [][ClientNext]_vars

\* an attempt ends (the HTTP client of NewClient has a timeout, main.go:260),
\* the wait before a retry ends, and the lines after Do are run
ClientLiveSpec ==
  /\ ClientSpec
  /\ WF_vars(\E o \in Outcomes(inflight.req.url) : Attempt(o))
  /\ WF_vars(\E ctxDone \in BOOLEAN : Backoff(ctxDone))
  /\ WF_vars(ReturnSendRequest)
  /\ WF_vars(ReturnSendComprobanteDomicilio)

(***************************************************************************)
(* What the properties speak about: the segments of the string parsed and  *)
(* the number its digits spell, computed from the last digit backwards.    *)
(***************************************************************************)
Parts == Split(dateStr)

Returned == call.outcome = "returned"

ReturnedNil == call.outcome = "returned" /\ call.err = NoError

HasDigit(s) == \E i \in 1..Len(s) : s[i] \in DigitSet

AllDigits(s) == s # <<>> /\ \A i \in 1..Len(s) : s[i] \in DigitSet

RECURSIVE NumberSpelled(_)
NumberSpelled(s) ==
  IF s = <<>> THEN 0
  ELSE LET last == s[Len(s)]
           rest == NumberSpelled(SubSeq(s, 1, Len(s) - 1))
       IN  IF last \in DigitSet THEN 10 * rest + DigitVal(last) ELSE rest

DaysIn(y, mon) == DaysBeforeIn(y, mon + 1) - DaysBeforeIn(y, mon)

\* the year the two-digit rule gives
YearOf(n) == IF n < 100 THEN 2000 + n ELSE n

(***************************************************************************)
(* The caller of a StringOrObject: it puts a JSON value in its buffer and  *)
(* decodes it, writes the next value in the same buffer, and encodes.      *)
(***************************************************************************)
\* err := so.UnmarshalJSON(data): the caller has read d into its buffer,
\* data is the start of the buffer, which holds d, or nil; recv tells
\* whether so is a nil pointer
CallUnmarshalJSON(recv, d, isNil) ==
  LET m1 == [mem EXCEPT ![Buf.arr] = Store(Zeroed(BufCap), d)]
      data == IF isNil THEN NilSlice ELSE [Buf EXCEPT !.len = Len(d)]
      r == UnmarshalJSON(recv, so.raw, data, IF isNil THEN mem ELSE m1)
  IN  /\ so' = [raw |-> r.raw]
      /\ mem' = Collect(r.mem, {Buf, r.raw, out})
      /\ given' = IF recv = "nil" THEN given
                  ELSE IF isNil THEN Unset
                  ELSE [set |-> TRUE, bytes |-> d]
      /\ op' = [name |-> "UnmarshalJSON", err |-> r.err]
      /\ UNCHANGED out
      /\ UNCHANGED <<dateVars, clientVars, fixtureVars>>

\* b, err := so.MarshalJSON()
CallMarshalJSON ==
  LET r == MarshalJSON(so.raw, Collect(mem, {Buf, so.raw}))
  IN  /\ out' = r.out
      /\ mem' = r.mem
      /\ op' = [name |-> "MarshalJSON", err |-> NoError]
      /\ UNCHANGED <<so, given>>
      /\ UNCHANGED <<dateVars, clientVars, fixtureVars>>

\* the caller reads the next document into its buffer
ReuseBuffer(d) ==
  /\ op.name # "ReuseBuffer"
  /\ mem' = [mem EXCEPT ![Buf.arr] = Store(Zeroed(BufCap), d)]
  /\ op' = [name |-> "ReuseBuffer", err |-> NoError]
  /\ UNCHANGED <<so, out, given>>
  /\ UNCHANGED <<dateVars, clientVars, fixtureVars>>

ShapeInit ==
  /\ parser = NewParser(<<>>)
  /\ spanishMonths = spanishMonthsTable
  /\ dateStr = <<>>
  /\ nseg = 0
  /\ call = NoCall
  /\ earlier = {}
  /\ gor = [g \in Goroutines |-> IdleG]
  /\ acc = [g \in Goroutines |-> NoAccess]
  /\ ClientUnused
  /\ ShapeUnused
  /\ FixtureUnused

ShapeNext ==
  \/ \E d \in Datas : CallUnmarshalJSON("so", d, FALSE)
  \/ \E recv \in {"nil", "so"} : CallUnmarshalJSON(recv, <<>>, TRUE)
  \/ CallMarshalJSON
  \/ \E d \in JSONValues : ReuseBuffer(d)

ShapeSpec == ShapeInit /\ [][ShapeNext]_vars

(***************************************************************************)
(* The sanitizer walks the directory (main.go:37-54): a file whose name    *)
(* does not end in .json is left alone, the others are read, sanitized and *)
(* written back (main.go:56-81).                                           *)
(***************************************************************************)
\* main.go:45-47
SkipFile ==
  /\ ~HasSuffix(ToLower(fileName), <<".", "j", "s", "o", "n">>)
  /\ run' = [state |-> "skipped", before |-> fixture]
  /\ UNCHANGED <<fixture, fileName>>
  /\ UNCHANGED <<dateVars, clientVars, shapeVars>>

\* main.go:48 and 56-81: sanitizeFile(path); a file that is not JSON is an
\* error and stays as it is
SanitizeFile ==
  /\ HasSuffix(ToLower(fileName), <<".", "j", "s", "o", "n">>)
  /\ IF fixture.kind = "invalid"
     THEN /\ run' = [state |-> "failed", before |-> fixture]
          /\ UNCHANGED fixture
     ELSE /\ run' = [state |-> "sanitized", before |-> fixture]
          /\ fixture' \in sanitizeValue(<<>>, fixture, fileName)
  /\ UNCHANGED fileName
  /\ UNCHANGED <<dateVars, clientVars, shapeVars>>

SanitizeInit ==
  /\ parser = NewParser(<<>>)
  /\ spanishMonths = spanishMonthsTable
  /\ dateStr = <<>>
  /\ nseg = 0
  /\ call = NoCall
  /\ earlier = {}
  /\ gor = [g \in Goroutines |-> IdleG]
  /\ acc = [g \in Goroutines |-> NoAccess]
  /\ ClientUnused
  /\ ShapeUnused
  /\ fixture \in Fixtures
  /\ fileName \in FileNames
  /\ run = NoRun

SanitizeNext == SkipFile \/ SanitizeFile

SanitizeSpec == SanitizeInit /\ [][SanitizeNext]_vars

(***************************************************************************)
(* C1: Parse("") and Parse("//") return ErrDateEmpty and the zero Time,    *)
(* whatever the options of the parser.                                     *)
(***************************************************************************)
C1_EmptyInputs ==
  (call.outcome # "none" /\ dateStr \in {<<>>, <<"/", "/">>}) =>
    /\ call.outcome = "returned"
    /\ call.err = ErrDateEmpty
    /\ call.t = ZeroTime

C1_Witness ==
  /\ dateStr = <<"/", "/">>
  /\ parser.expiryReferenceDate # Nil
  /\ call.outcome = "returned"
  /\ call.err = ErrDateEmpty

(***************************************************************************)
(* C2, as claimed: for three segments of digits D/M/Y, Parse returns no    *)
(* error and the Time whose day is D, month is M and year is Y (2000 + Y   *)
(* when Y < 100), in the local zone.                                       *)
(***************************************************************************)
NumericDate ==
  /\ call.outcome # "none"
  /\ Len(Parts) = 3
  /\ \A i \in 1..3 : AllDigits(Parts[i])

C2_Original ==
  NumericDate =>
    /\ ReturnedNil
    /\ call.t.loc = "Local"
    /\ TimeDay(call.t) = NumberSpelled(Parts[1])
    /\ TimeMonth(call.t) = NumberSpelled(Parts[2])
    /\ TimeYear(call.t) = YearOf(NumberSpelled(Parts[3]))

(***************************************************************************)
(* C2, amended: for three segments of digits D/M/Y, Parse returns no error *)
(* and time.Date(Y', M, D) in the local zone, Y' being Y or 2000 + Y: the  *)
(* calendar date of day D, month M, year Y' when M is in 1..12 and D is a  *)
(* day of that month, and the date D - 1 days after the first of the month *)
(* that lies M - 1 months after January of Y' otherwise.                   *)
(***************************************************************************)
C2_NumericDate ==
  NumericDate =>
    LET D == NumberSpelled(Parts[1])
        M == NumberSpelled(Parts[2])
        Y == YearOf(NumberSpelled(Parts[3]))
        first == TimeDate(Y + ((M - 1) \div 12), ((M - 1) % 12) + 1, 1, "Local")
    IN  /\ ReturnedNil
        /\ call.t.loc = "Local"
        /\ call.t.abs = first.abs + D - 1
        /\ (M \in 1..12 /\ D \in 1..DaysIn(Y, M)) =>
             /\ TimeDay(call.t) = D
             /\ TimeMonth(call.t) = M
             /\ TimeYear(call.t) = Y

C2_Witness ==
  /\ dateStr = <<"1", "3", "/", "0", "4", "/", "2", "0", "2", "5">>
  /\ ReturnedNil
  /\ TimeDay(call.t) = 13 /\ TimeMonth(call.t) = 4 /\ TimeYear(call.t) = 2025

(***************************************************************************)
(* C3: a year value below 100 becomes 2000 + year, with no pivot ("99" is  *)
(* 2099, "20" is 2020); a year value of 100 or more is kept (".202" is     *)
(* 202).                                                                   *)
(***************************************************************************)
C3_YearNormalization ==
  (ReturnedNil /\ Len(Parts) >= 3) =>
    LET y == NumberSpelled(Parts[3])
    IN  /\ y < 100 => call.year = 2000 + y
        /\ y >= 100 => call.year = y
        /\ Parts[3] = <<"9", "9">> => call.year = 2099
        /\ Parts[3] = <<"2", "0">> => call.year = 2020
        /\ Parts[3] = <<".", "2", "0", "2">> => call.year = 202
        /\ call.t = TimeDate(call.year, call.month, call.day, "Local")
        /\ (call.month \in 1..12 /\ call.day \in 1..28) =>
             TimeYear(call.t) = call.year

C3_Witness ==
  /\ ReturnedNil
  /\ Len(Parts) = 3
  /\ Parts[3] = <<"9", "9">>
  /\ call.month = 12
  /\ TimeYear(call.t) = 2099

(***************************************************************************)
(* C4: ErrDateEmpty is the only error Parse returns, and only for "" and   *)
(* "//"; every other string of three segments or more gives a nil error.   *)
(***************************************************************************)
C4_OnlyEmptyDateError ==
  /\ Returned => call.err \in {NoError, ErrDateEmpty}
  /\ Returned => (call.err = ErrDateEmpty <=> dateStr \in {<<>>, <<"/", "/">>})
  /\ (call.outcome # "none" /\ Len(Parts) >= 3 /\ dateStr # <<"/", "/">>) =>
       ReturnedNil

C4_Witness ==
  /\ dateStr = <<"/", " ", "/">>
  /\ ReturnedNil

(***************************************************************************)
(* C5, as claimed: whenever Parse returns a nil error, the month value it  *)
(* took from the input is in 1..12 and the day value in 1..31.             *)
(***************************************************************************)
C5_Original ==
  ReturnedNil => call.month \in 1..12 /\ call.day \in 1..31

(***************************************************************************)
(* C5, amended: whenever Parse returns a nil error, the day value is the   *)
(* number the digits of the day segment spell (0 without digits) and the   *)
(* month value is the number the digits of the month segment spell or,     *)
(* without digits, a value in 0..12; neither is checked against a range,   *)
(* so the month is in 1..12 and the day in 1..31 only when the input says  *)
(* so.                                                                     *)
(***************************************************************************)
C5_MonthDayAsSupplied ==
  ReturnedNil =>
    /\ call.day = NumberSpelled(Parts[1])
    /\ HasDigit(Parts[2]) => call.month = NumberSpelled(Parts[2])
    /\ ~HasDigit(Parts[2]) => call.month \in 0..12
    /\ (call.day \in 1..31 /\ call.month \in 1..12 /\ call.day <= DaysIn(call.year, call.month)) =>
         TimeDay(call.t) = call.day /\ TimeMonth(call.t) = call.month

C5_Witness ==
  /\ ReturnedNil
  /\ call.month = 13
  /\ call.day = 45

(***************************************************************************)
(* C6: a month segment without digits that is a key of the Spanish table   *)
(* in any mix of cases, with any whitespace around it, gives the month the *)
(* table holds for the key.                                                *)
(***************************************************************************)
SpanishSpellings ==
  [k \in DOMAIN spanishMonthsTable |->
     {l \o v \o r : l \in Pads, r \in Pads, v \in CaseVariants(k)}]

C6_SpanishMonthNames ==
  (ReturnedNil /\ ~HasDigit(Parts[2])) =>
    \A k \in DOMAIN spanishMonthsTable :
      Parts[2] \in SpanishSpellings[k] => call.month = spanishMonthsTable[k]

C6_Witness ==
  /\ ReturnedNil
  /\ Parts[2] = <<"\t">> \o UpperAt(<<"s", "e", "p", "t", "i", "e", "m", "b", "r", "e">>, 1..10) \o <<" ">>
  /\ call.via = "spanish"
  /\ call.month = 9

(***************************************************************************)
(* C7, as claimed: a month segment without digits is taken as an English   *)
(* month only when it is exactly one of "Jan" .. "Dec"; one that differs   *)
(* in case only goes on to the Spanish table, so that its month is the     *)
(* entry of the table for the lowered, trimmed segment (0 without entry).  *)
(***************************************************************************)
ExactShortNames == {shortMonthNames[i] : i \in 1..12}

EnglishIndex(s) ==
  {i \in 1..12 : \E S \in SUBSET (1..3) : s = UpperAt(ToLower(shortMonthNames[i]), S)}

Alone(s) == ParseCall(spanishMonthsTable, s)

C9_ConcurrentParse ==
  /\ \A g \in Goroutines :
       /\ gor[g].pc = "done" =>
            /\ Alone(gor[g].dateStr).outcome = "returned"
            /\ gor[g].t = Alone(gor[g].dateStr).t
            /\ gor[g].err = Alone(gor[g].dateStr).err
       /\ gor[g].pc = "panic" => Alone(gor[g].dateStr).outcome = "panic"
  /\ \A g, h \in Goroutines :
       g # h => acc[g].w \cap (acc[h].r \cup acc[h].w) = {}

C9_Witness ==
  \E g, h \in Goroutines :
    /\ g # h
    /\ gor[g].pc = "done"
    /\ gor[g].dateStr = <<"2", "4", "/", " ", "E", "N", "E", "/", "o", ".", "2", "0">>
    /\ gor[g].t = TimeDate(2020, 1, 24, "Local")
    /\ gor[h].pc = "L57"
    /\ gor[h].dateStr = <<"1", "/", "x", "y", "z", "/", "9", "9">>
    /\ "spanishMonths" \in acc[g].r \cap acc[h].r

(***************************************************************************)
(* C10: a call of Parse changes neither the reference date of the parser   *)
(* nor the Spanish table, whatever the calls before it returned, and what  *)
(* it returns is what a first call on the same string returns.             *)
(***************************************************************************)
ParseStep == call'.outcome # "none" /\ (call' # call \/ earlier' # earlier)

C10_NoSideEffects ==
  /\ [][ParseStep => (parser' = parser /\ spanishMonths' = spanishMonths)]_vars
  /\ [](spanishMonths = spanishMonthsTable)
  /\ [](call.outcome # "none" => call = ParseCall(spanishMonthsTable, dateStr))

C10_Witness ==
  /\ earlier = {NoError, ErrDateEmpty}
  /\ parser.expiryReferenceDate = <<TimeDate(2025, 6, 12, "Local")>>
  /\ spanishMonths = spanishMonthsTable
  /\ dateStr = <<"2", "4", "/", "m", "a", "y", "/", "o", ".", "2", "0">>
  /\ ReturnedNil
  /\ call.t = TimeDate(2020, 5, 24, "Local")

(***************************************************************************)
(* C11: Parse never reads the reference date: for every string, the parser *)
(* built without options and the parsers built with                        *)
(* WithExpiryReferenceDate(d), for any d, return the same Time and the     *)
(* same error.                                                             *)
(***************************************************************************)
\* what the parser without options returns for s
WithoutReference(s) == ParseCall(spanishMonthsTable, s)

C11_ReferenceDateUnused ==
  \A options \in OptionLists :
    (parser = NewParser(options) /\ call.outcome # "none") =>
      /\ call.outcome = WithoutReference(dateStr).outcome
      /\ call.t = WithoutReference(dateStr).t
      /\ call.err = WithoutReference(dateStr).err

C11_Witness ==
  /\ parser = NewParser(<<TimeDate(1999, 12, 31, "Local")>>)
  /\ dateStr = <<"2", "4", "/", "1", "2", "/", "9", "9">>
  /\ ReturnedNil
  /\ call.t = TimeDate(2099, 12, 24, "Local")

(***************************************************************************)
(* C12: after SendComprobanteDomicilio has returned a result, ParsedDate   *)
(* and DateError of the result are the Time and the error that             *)
(* DateParser.Parse returns for its Fecha.                                 *)
(***************************************************************************)
Succeeded(api) ==
  /\ inflight.pc = "done"
  /\ inflight.api = api
  /\ ret.err = NoError

C12_ClientUsesDateParser ==
  Succeeded("SendComprobanteDomicilio") =>
    /\ ParseCall(spanishMonthsTable, ret.result[1].Fecha).outcome = "returned"
    /\ ret.result[1].ParsedDate = ParseCall(spanishMonthsTable, ret.result[1].Fecha).t
    /\ ret.result[1].DateError = ParseCall(spanishMonthsTable, ret.result[1].Fecha).err

(***************************************************************************)
(* C13, as claimed: every request of a client built with a                 *)
(* WithCredentials option carries Authorization: Basic                     *)
(* base64(username:password), a request of a client built without one      *)
(* carries no Authorization header, and every request carries              *)
(* Content-Type: application/json.                                         *)
(***************************************************************************)
CredentialOptions ==
  {n \in 1..Len(clientOpts) : clientOpts[n].name = "WithCredentials"}

\* the WithCredentials option that NewClient applied last
LastCredentials ==
  clientOpts[CHOOSE m \in CredentialOptions : \A k \in CredentialOptions : k <= m]

\* base64 of the credentials of the model
ExpectedBasic(username, password) ==
  CASE username = <<"u", "s", "e", "r">> /\ password = <<"p", "a", "s", "s">> -> <<"B", "a", "s", "i", "c", " ", "d", "X", "N", "l", "c", "j", "p", "w", "Y", "X", "N", "z">>
    [] username = <<"u", "s", "e", "r">> /\ password = <<>> -> <<"B", "a", "s", "i", "c", " ", "d", "X", "N", "l", "c", "j", "o", "=">>
    [] username = <<>> /\ password = <<"p", "a", "s", "s">> -> <<"B", "a", "s", "i", "c", " ", "O", "n", "B", "h", "c", "3", "M", "=">>
    [] username = <<>> /\ password = <<>> -> <<"B", "a", "s", "i", "c", " ", "O", "g", "=", "=">>

C13_Original ==
  \A n \in 1..Len(wire) :
    /\ wire[n].ContentType = "application/json"
    /\ CredentialOptions = {} => wire[n].Authorization = Nil
    /\ CredentialOptions # {} =>
         wire[n].Authorization =
           <<ExpectedBasic(LastCredentials.username, LastCredentials.password)>>

(***************************************************************************)
(* C13, amended: every request of a client built with                      *)
(* WithCredentials(username, password) where neither is empty carries      *)
(* Authorization: Basic base64(username:password); a request of a client   *)
(* built without the option, or with an empty username or an empty         *)
(* password, carries no Authorization header; every request carries        *)
(* Content-Type: application/json.                                         *)
(***************************************************************************)
C13_BasicAuthWhenBothSet ==
  \A n \in 1..Len(wire) :
    /\ wire[n].ContentType = "application/json"
    /\ CredentialOptions = {} => wire[n].Authorization = Nil
    /\ CredentialOptions # {} =>
         IF LastCredentials.username # <<>> /\ LastCredentials.password # <<>>
         THEN wire[n].Authorization =
                <<ExpectedBasic(LastCredentials.username, LastCredentials.password)>>
         ELSE wire[n].Authorization = Nil

C13_Witness ==
  /\ Len(wire) >= 2
  /\ CredentialOptions # {}
  /\ client.Username = <<"u", "s", "e", "r">>
  /\ client.Password = <<"p", "a", "s", "s">>
  /\ \A n \in 1..Len(wire) : wire[n].Authorization = <<<<"B", "a", "s", "i", "c", " ", "d", "X", "N", "l", "c", "j", "p", "w", "Y", "X", "N", "z">>>>

(***************************************************************************)
(* C14: SendRequest returns a nil error only for a body that is JSON; for  *)
(* a body that is not, it returns an error and a Response that holds the   *)
(* body, the status code and the headers of the response.                  *)
(***************************************************************************)
\* the bodies of the model that are JSON documents, and those that are not
JSONBodies ==
  {<<"{", "}">>, <<"n", "u", "l", "l">>, <<"\"", "o", "k", "\"">>, <<"[", "1", ",", " ", "2", "]">>,
   <<"{", "\"", "f", "e", "c", "h", "a", "\"", ":", "\"", "\"", "}">>,
   <<"{", "\"", "f", "e", "c", "h", "a", "\"", ":", "\"", "1", "3", "/", "0", "4", "\"", "}">>,
   <<"{", "\"", "f", "e", "c", "h", "a", "\"", ":", "1", "}">>,
   <<"{", "\"", "F", "e", "c", "h", "a", "\"", ":", "\"", "0", "1", "/", "0", "2", "/", "2", "0", "2", "5", "\"", "}">>,
   <<" ", "{", "\"", "s", "t", "a", "t", "u", "s", "\"", ":", "\"", "O", "K", "\"", ",", " ", "\"", "f", "e", "c", "h", "a", "\"", ":", "\"", "2", "4", "/", "E", "N", "E", "/", "o", ".", "2", "0", "\"", "}", " ">>}

NonJSONBodies ==
  {<<>>, <<"<", "h", "t", "m", "l", ">">>, <<"0", "1">>, <<"{", "\"", "f", "e", "c", "h", "a", "\"", ":", "\"", "1", "3", "/", "0", "4", "/", "2", "0", "2", "5", "\"">>}

\* Do has returned a response whose body has been read
BodyRead ==
  /\ inflight.pc = "done"
  /\ inflight.api = "SendRequest"
  /\ inflight.do.err = NoError
  /\ ~inflight.do.resp[1].readErr

C14_JSONValidation ==
  /\ JSONBodies \cup NonJSONBodies = Bodies
  /\ Succeeded("SendRequest") =>
       /\ BodyRead
       /\ inflight.do.resp[1].Body \in JSONBodies
       /\ ret.resp # Nil
  /\ (BodyRead /\ inflight.do.resp[1].Body \in NonJSONBodies) =>
       /\ ret.err \notin {NoError, "none"}
       /\ ret.resp # Nil
       /\ ret.resp[1].JSONData = inflight.do.resp[1].Body
       /\ ret.resp[1].StatusCode = inflight.do.resp[1].StatusCode
       /\ ret.resp[1].Headers = inflight.do.resp[1].Header

C14_Witness ==
  /\ BodyRead
  /\ inflight.do.resp[1].Body = <<"<", "h", "t", "m", "l", ">">>
  /\ inflight.do.resp[1].StatusCode = 401
  /\ ret.err = "API returned non-JSON response"
  /\ ret.resp = <<[JSONData |-> <<"<", "h", "t", "m", "l", ">">>, StatusCode |-> 401,
                   Headers |-> [ContentType |-> "text/html"]]>>

(***************************************************************************)
(* C15: a call makes at most RetryMax + 1 attempts, 4 with the client of   *)
(* NewClient and RetryMax + 1 of the client injected with                  *)
(* WithRetryableClient; a call that has made them all without an attempt   *)
(* the retry policy accepts returns no response and an error; and every    *)
(* call that has started returns.                                          *)
(***************************************************************************)
InjectedClients ==
  {n \in 1..Len(clientOpts) : clientOpts[n].name = "WithRetryableClient"}

\* the most attempts the client may make
AttemptBound ==
  IF InjectedClients = {} THEN 4
  ELSE clientOpts[CHOOSE m \in InjectedClients :
                    \A k \in InjectedClients : k <= m].client[1].RetryMax + 1

\* every attempt of the call that returned was one the retry policy retries
Exhausted ==
  /\ inflight.pc = "done"
  /\ Len(wire) = AttemptBound
  /\ inflight.do = DoFailed

C15_RetriesBounded ==
  /\ [](Len(wire) <= AttemptBound)
  /\ []((inflight.pc = "done" /\ inflight.do = DoFailed) =>
          (ret.resp = Nil /\ ret.result = Nil /\ ret.err = "error sending request"))
  /\ [](inflight.pc = "backoff" => Len(wire) < AttemptBound)
  /\ (inflight.pc \in {"do", "backoff", "L303"}) ~> (inflight.pc = "done")

C15_Witness ==
  /\ InjectedClients = {}
  /\ client.RetryableClient.RetryMax = 3
  /\ Exhausted
  /\ Len(wire) = 4
  /\ ret.resp = Nil
  /\ ret.err = "error sending request"

UnknownMonth ==
  /\ call.outcome # "none"
  /\ Len(Parts) >= 3
  /\ dateStr # <<"/", "/">>
  /\ ~HasDigit(Parts[2])
  /\ EnglishIndex(Parts[2]) = {}
  /\ ToLower(TrimSpace(Parts[2])) \notin DOMAIN spanishMonthsTable

C17_Original ==
  UnknownMonth =>
    /\ ReturnedNil
    /\ call.month = 0
    /\ TimeMonth(call.t) = 12
    /\ TimeYear(call.t) = call.year - 1

(***************************************************************************)
(* C17, amended: such a segment gives month 0 and a nil error, and the     *)
(* Time returned is the day that lies (day value - 1) days after 1         *)
(* December of the year before the parsed year: in that December when the  *)
(* day value is in 1..31, 30 November for the day value 0, in the parsed   *)
(* year or later for a day value above 31.                                 *)
(***************************************************************************)
C17_UnknownMonthIsZero ==
  UnknownMonth =>
    /\ ReturnedNil
    /\ call.month = 0
    /\ call.t.abs = TimeDate(call.year - 1, 12, 1, "Local").abs + call.day - 1
    /\ call.day \in 1..31 =>
         /\ TimeMonth(call.t) = 12
         /\ TimeYear(call.t) = call.year - 1
         /\ TimeDay(call.t) = call.day
    /\ call.day = 0 =>
         /\ TimeMonth(call.t) = 11
         /\ TimeDay(call.t) = 30
         /\ TimeYear(call.t) = call.year - 1
    /\ call.day > 31 => TimeYear(call.t) >= call.year

C17_Witness ==
  /\ dateStr = <<"2", "4", "/", "x", "y", "z", "/", "o", ".", "2", "0">>
  /\ ReturnedNil
  /\ call.month = 0
  /\ TimeDay(call.t) = 24 /\ TimeMonth(call.t) = 12 /\ TimeYear(call.t) = 2019

(***************************************************************************)
(* C18: a day segment without digits gives day 0 and a nil error, and the  *)
(* Time returned is the last day of the month before the parsed month.     *)
(***************************************************************************)
C18_DayWithoutDigits ==
  (ReturnedNil /\ ~HasDigit(Parts[1])) =>
    /\ call.day = 0
    /\ call.t.abs + 1 = TimeDate(call.year, call.month, 1, "Local").abs
    /\ TimeDay(call.t) = DaysIn(TimeYear(call.t), TimeMonth(call.t))
    /\ call.month \in 2..12 =>
         TimeMonth(call.t) = call.month - 1 /\ TimeYear(call.t) = call.year
    /\ call.month = 1 =>
         TimeMonth(call.t) = 12 /\ TimeYear(call.t) = call.year - 1

C18_Witness ==
  /\ dateStr = <<"a", "/", "0", "3", "/", "2", "0", "2", "5">>
  /\ ReturnedNil
  /\ call.day = 0
  /\ TimeDay(call.t) = 28 /\ TimeMonth(call.t) = 2 /\ TimeYear(call.t) = 2025

(***************************************************************************)
(* C19: a year segment without digits ("01/01/", "01/01/AC") is read as 0  *)
(* and, being below 100, becomes the year 2000; the error is nil.          *)
(***************************************************************************)
C19_YearWithoutDigits ==
  (call.outcome # "none" /\ Len(Parts) >= 3 /\ dateStr # <<"/", "/">>
     /\ ~HasDigit(Parts[3])) =>
    /\ ReturnedNil
    /\ call.year = 2000
    /\ (call.month \in 1..12 /\ call.day \in 1..28) => TimeYear(call.t) = 2000

C19_Witness ==
  /\ dateStr = <<"0", "1", "/", "0", "1", "/", "A", "C">>
  /\ ReturnedNil
  /\ call.year = 2000
  /\ call.t = TimeDate(2000, 1, 1, "Local")

(***************************************************************************)
(* C20, as claimed: a month or a day out of range is never refused, the    *)
(* error is nil, month 13 of year Y is January of Y + 1, and a day after   *)
(* the end of its month lies in the month that follows it.                 *)
(***************************************************************************)
ThreeSegments ==
  /\ call.outcome # "none"
  /\ Len(Parts) >= 3
  /\ dateStr # <<"/", "/">>

FollowingMonth(y, mon) ==
  IF mon = 12 THEN [year |-> y + 1, month |-> 1] ELSE [year |-> y, month |-> mon + 1]

C20_Original ==
  ThreeSegments =>
    /\ ReturnedNil
    /\ (call.month = 13 /\ call.day \in 1..31) =>
         TimeYear(call.t) = call.year + 1 /\ TimeMonth(call.t) = 1
    /\ (call.month \in 1..12 /\ call.day > DaysIn(call.year, call.month)) =>
         /\ TimeYear(call.t) = FollowingMonth(call.year, call.month).year
         /\ TimeMonth(call.t) = FollowingMonth(call.year, call.month).month

(***************************************************************************)
(* C20, amended: a month or a day out of range is never refused and the    *)
(* error is nil; month 13 of year Y is January of Y + 1; a day value D     *)
(* gives the day that lies D - 1 days after the first day of the month,    *)
(* which is in the following month when D exceeds the length of the month  *)
(* by no more than the length of the following month (31/02/2025 is 3      *)
(* March 2025) and in a later month otherwise (99/02/2025 is 10 May 2025). *)
(***************************************************************************)
C20_Rollover ==
  ThreeSegments =>
    /\ ReturnedNil
    /\ (call.month = 13 /\ call.day \in 1..31) =>
         /\ TimeYear(call.t) = call.year + 1
         /\ TimeMonth(call.t) = 1
         /\ TimeDay(call.t) = call.day
    /\ call.month \in 1..12 =>
         call.t.abs = TimeDate(call.year, call.month, 1, "Local").abs + call.day - 1
    /\ call.month = 13 =>
         call.t.abs = TimeDate(call.year + 1, 1, 1, "Local").abs + call.day - 1
    /\ (call.month \in 1..12 /\ call.day > DaysIn(call.year, call.month)) =>
         LET excess == call.day - DaysIn(call.year, call.month)
             next == FollowingMonth(call.year, call.month)
         IN  IF excess <= DaysIn(next.year, next.month)
             THEN /\ TimeYear(call.t) = next.year
                  /\ TimeMonth(call.t) = next.month
                  /\ TimeDay(call.t) = excess
             ELSE call.t.abs > TimeDate(next.year, next.month,
                                        DaysIn(next.year, next.month), "Local").abs
    /\ dateStr = <<"3", "1", "/", "0", "2", "/", "2", "0", "2", "5">> =>
         TimeYear(call.t) = 2025 /\ TimeMonth(call.t) = 3 /\ TimeDay(call.t) = 3

C20_Witness ==
  /\ dateStr = <<"3", "1", "/", "0", "2", "/", "2", "0", "2", "5">>
  /\ ReturnedNil
  /\ call.day = 31 /\ call.month = 2
  /\ call.t = TimeDate(2025, 3, 3, "Local")

(***************************************************************************)
(* C21: a string that is not empty and holds fewer than two '/' ("13",     *)
(* "/", "13/04") makes Parse panic on the index of a missing segment; no   *)
(* error value is returned.  No other string does.                         *)
(***************************************************************************)
\* the number of '/' in s
Slashes(s) == Cardinality({i \in 1..Len(s) : s[i] = "/"})

C21_FewerThanThreeSegmentsPanic ==
  call.outcome # "none" =>
    /\ (dateStr # <<>> /\ Slashes(dateStr) < 2) =>
         /\ call.outcome = "panic"
         /\ call.err = NoError
         /\ call.t = ZeroTime
    /\ call.outcome = "panic" => (dateStr # <<>> /\ Slashes(dateStr) < 2)

C21_Witness ==
  /\ dateStr = <<"1", "3", "/", "0", "4">>
  /\ call.outcome = "panic"

(***************************************************************************)
(* C22, as claimed: for a string of more than three segments Parse         *)
(* returns a nil error and the Time it returns, with a nil error, for the  *)
(* string cut after its third segment.                                     *)
(***************************************************************************)
\* the string cut after its third segment
Truncated == Parts[1] \o <<"/">> \o Parts[2] \o <<"/">> \o Parts[3]

MoreThanThree == call.outcome # "none" /\ Len(Parts) > 3

C22_Original ==
  MoreThanThree =>
    /\ ReturnedNil
    /\ ParseCall(spanishMonthsTable, Truncated).err = NoError
    /\ call.t = ParseCall(spanishMonthsTable, Truncated).t

(***************************************************************************)
(* C22, amended: for a string of more than three segments Parse reads the  *)
(* first three as day, month and year and returns a nil error; the Time    *)
(* is the one it returns for the string cut after its third segment,       *)
(* unless the first three segments are all empty: the cut string is then   *)
(* "//", which gives ErrDateEmpty, while the longer string gives day 0,    *)
(* month 0, year 2000, that is 30 November 1999.                           *)
(***************************************************************************)
C22_ExtraSegmentsIgnored ==
  MoreThanThree =>
    /\ ReturnedNil
    /\ call.day = ParseDay(Parts[1])
    /\ call.month = ParseMonth(spanishMonthsTable, Parts[2]).val
    /\ call.year = ParseYear(Parts[3])
    /\ IF Truncated = <<"/", "/">>
       THEN /\ ParseCall(spanishMonthsTable, Truncated).err = ErrDateEmpty
            /\ TimeYear(call.t) = 1999 /\ TimeMonth(call.t) = 11 /\ TimeDay(call.t) = 30
       ELSE /\ ParseCall(spanishMonthsTable, Truncated).err = NoError
            /\ call.t = ParseCall(spanishMonthsTable, Truncated).t

C22_Witness ==
  /\ dateStr = <<"1", "3", "/", "0", "4", "/", "2", "0", "2", "5", "/", "x", "y", "z">>
  /\ ReturnedNil
  /\ call.t = TimeDate(2025, 4, 13, "Local")

(***************************************************************************)
(* C23: SendRequest does not look at the status code: whatever the status  *)
(* of the response that Do returns, 4xx and 5xx included, a response whose *)
(* body is JSON is returned with a nil error, and Response.StatusCode is   *)
(* that status.                                                            *)
(***************************************************************************)
C23_StatusCodeIgnored ==
  (BodyRead /\ inflight.do.resp[1].Body \in JSONBodies) =>
    /\ ret.err = NoError
    /\ ret.resp # Nil
    /\ ret.resp[1].StatusCode = inflight.do.resp[1].StatusCode
    /\ ret.resp[1].JSONData = inflight.do.resp[1].Body

C23_Witness ==
  /\ BodyRead
  /\ inflight.do.resp[1].StatusCode = 501
  /\ inflight.do.resp[1].Body = <<"{", "\"", "f", "e", "c", "h", "a", "\"", ":", "\"", "\"", "}">>
  /\ ret.err = NoError
  /\ ret.resp[1].StatusCode = 501

(***************************************************************************)
(* C24: a date that cannot be read never fails SendComprobanteDomicilio.   *)
(* When Do returns a response, its body is read and is a JSON document     *)
(* that decodes into the response structure, the method returns a result   *)
(* and a nil error; in every result either ParsedDate is set and DateError *)
(* is nil, or DateError is not nil and ParsedDate is the zero time, never  *)
(* both; with an error that is not nil the result is nil.                  *)
(***************************************************************************)
\* the bodies of the model that json.Unmarshal stores in a
\* ComprobanteDomicilioResponse without an error
DecodableBodies ==
  {<<"{", "}">>,
   <<"n", "u", "l", "l">>,
   <<"{", "\"", "f", "e", "c", "h", "a", "\"", ":", "\"", "\"", "}">>,
   <<"{", "\"", "f", "e", "c", "h", "a", "\"", ":", "\"", "1", "3", "/", "0", "4", "\"", "}">>,
   <<"{", "\"", "F", "e", "c", "h", "a", "\"", ":", "\"", "0", "1", "/", "0", "2", "/", "2", "0", "2", "5", "\"", "}">>,
   <<" ", "{", "\"", "s", "t", "a", "t", "u", "s", "\"", ":", "\"", "O", "K", "\"", ",", " ", "\"", "f", "e", "c", "h", "a", "\"", ":", "\"", "2", "4", "/", "E", "N", "E", "/", "o", ".", "2", "0", "\"", "}", " ">>}

\* SendComprobanteDomicilio has returned
ReturnedComprobante ==
  /\ inflight.pc = "done"
  /\ inflight.api = "SendComprobanteDomicilio"

\* the request and the decoding of its response have succeeded
RequestAndDecodingSucceeded ==
  /\ ReturnedComprobante
  /\ inflight.do.err = NoError
  /\ ~inflight.do.resp[1].readErr
  /\ inflight.do.resp[1].Body \in DecodableBodies

\* ParsedDate holds a date that dateparser.Parse has found
DateSet(result) == result.ParsedDate \in DateparserDates /\ result.DateError = NoError

DateFailed(result) == result.DateError # NoError /\ result.ParsedDate = ZeroTime

HoldsValue == given.set /\ given.bytes \in JSONValues

C25_ShapePreserved ==
  /\ HoldsValue =>
       /\ Contents(mem, so.raw) = given.bytes
       /\ so.raw.arr # Buf.arr
  /\ op.name = "MarshalJSON" =>
       /\ HoldsValue => Contents(mem, out) = given.bytes
       /\ ~given.set => Contents(mem, out) = <<"n", "u", "l", "l">>

\* "ab" has been decoded over a longer value, of which the array of so
\* still holds the end, the caller has put another value in its buffer
\* and MarshalJSON has returned "ab"
C25_Witness ==
  /\ op.name = "MarshalJSON"
  /\ given = [set |-> TRUE, bytes |-> <<"\"", "a", "b", "\"">>]
  /\ Contents(mem, out) = <<"\"", "a", "b", "\"">>
  /\ mem[so.raw.arr][5] # NUL
  /\ SubSeq(mem[Buf.arr], 1, 2) = <<"{", "}">>

(***************************************************************************)
(* C26: in the fixture sanitizer every string whose key is matched by the  *)
(* pattern of the keys of personal data is replaced by the placeholder     *)
(* that placeholderForKey lists for that key: codigoBarras gives           *)
(* CB-ANON- and the hash of the file name, codigoNumerico,                 *)
(* codigoValidacion, numeroServicio and numeroMedidor give ANON- and the   *)
(* hash, codigoPostal gives 00000, claveMensaje gives MENSAJE-ANON; ANON   *)
(* alone is for the keys that have no case of their own.                   *)
(***************************************************************************)
\* the placeholder listed for a key, whatever the case of its letters
ListedPlaceholder(key, context) ==
  LET k == ToLower(key)
      Is(labels) == \E label \in labels : k = ToLower(label)
  IN  CASE Is({<<"n", "o", "m", "b", "r", "e">>}) -> <<"A", "N", "O", "N", " ", "U", "S", "E", "R">>
        [] Is({<<"c", "a", "l", "l", "e">>}) -> <<"C", "A", "L", "L", "E", " ", "F", "A", "L", "S", "A", " ", "1", "2", "3">>
        [] Is({<<"c", "o", "l", "o", "n", "i", "a">>}) -> <<"C", "O", "L", "O", "N", "I", "A", " ", "F", "A", "L", "S", "A">>
        [] Is({<<"c", "i", "u", "d", "a", "d">>}) -> <<"C", "I", "U", "D", "A", "D", " ", "A", "N", "O", "N">>
        [] Is({<<"c", "p">>, <<"c", "o", "d", "i", "g", "o", "P", "o", "s", "t", "a", "l">>}) -> <<"0", "0", "0", "0", "0">>
        [] Is({<<"q", "r">>}) -> <<"Q", "R", "-", "A", "N", "O", "N", "-">> \o hashLike(context)
        [] Is({<<"c", "o", "d", "i", "g", "o", "B", "a", "r", "r", "a", "s">>}) -> <<"C", "B", "-", "A", "N", "O", "N", "-">> \o hashLike(context)
        [] Is({<<"c", "o", "d", "i", "g", "o", "N", "u", "m", "e", "r", "i", "c", "o">>, <<"c", "o", "d", "i", "g", "o", "V", "a", "l", "i", "d", "a", "c", "i", "o", "n">>, <<"r", "m", "u", "2">>, <<"m", "u", "l", "t", "i", "p", "l", "i", "c", "a", "d", "o", "r">>,
               <<"r", "e", "f", "e", "r", "e", "n", "c", "i", "a">>, <<"n", "u", "m", "e", "r", "o", "S", "e", "r", "v", "i", "c", "i", "o">>, <<"n", "u", "m", "e", "r", "o", "M", "e", "d", "i", "d", "o", "r">>}) ->
             <<"A", "N", "O", "N", "-">> \o hashLike(context)
        [] Is({<<"t", "a", "r", "i", "f", "a">>}) -> <<"T", "-", "A", "N", "O", "N">>
        [] Is({<<"s", "t", "a", "t", "u", "s">>}) -> <<"O", "K">>
        [] Is({<<"t", "i", "p", "o">>}) -> <<"A", "N", "O", "N">>
        [] Is({<<"c", "l", "a", "v", "e", "M", "e", "n", "s", "a", "j", "e">>}) -> <<"M", "E", "N", "S", "A", "J", "E", "-", "A", "N", "O", "N">>
        [] OTHER -> <<"A", "N", "O", "N">>

\* the sanitizer has rewritten a file that held an object
SanitizedObject == run.state = "sanitized" /\ run.before.kind = "object"

C26_KeySpecificPlaceholder ==
  SanitizedObject =>
    \A i \in 1..Len(run.before.keys) :
      (/\ run.before.items[i].kind = "string"
       /\ MatchString(piiKeyPattern, run.before.keys[i])) =>
        fixture.items[i] = Str(ListedPlaceholder(run.before.keys[i], fileName))

=============================================================================
